---- MODULE Spec2Model ----
(***************************************************************************)
(* A model of strpool: a reference-counted string interning pool with a    *)
(* small tier (length-prefixed slots packed in aligned pages, small.rs),   *)
(* a large tier (hash-indexed heap entries, large.rs) and handles that     *)
(* recover their owning pool from their pointer (lib.rs).                  *)
(*                                                                         *)
(* Every access to shared memory (an atomic load, a compare_exchange, a    *)
(* fetch_add, the copy of the bytes of a slot) is one action of one        *)
(* thread, so that TLC explores every interleaving of the operations.      *)
(*                                                                         *)
(* Scaling.  PAGE_SIZE is 2^PageBits = 256 here instead of 1024: it is the *)
(* smallest power of two whose page still holds the longest small string   *)
(* (126 bytes and its length byte).  All the other program constants keep  *)
(* the value of the source.                                                *)
(***************************************************************************)
EXTENDS Integers, Sequences, FiniteSets, Bags, TLC

(***************************************************************************)
(* Bounds of the model.                                                    *)
(***************************************************************************)
\* operations (intern, find, clone) the two threads of Spec start
MaxOps == 3
\* operations the single thread of SpecSeq starts
MaxSeqOps == 4
\* operations the two threads of FairSpec start
MaxFairOps == 2
\* calls of the program that is run on two pools, each call made twice
MaxShardOps == 6
\* operations (pool(), intern, find) the two threads of SpecCell start
MaxCellOps == 4
\* inner pools ever created
MaxPools == 2
\* pages ever allocated
MaxPages == 3
\* large blocks ever allocated
MaxLarge == 6
\* the hash is kept modulo this (the source's is a u64)
HashSpace == 65536
\* a page has 2^PageBits bytes (the source's has 2^10)
PageBits == 8
\* bits of an address of the model
AddrBits == 12

Threads == {1, 2}

(***************************************************************************)
(* Bit operations on naturals (u8 and usize values).                       *)
(***************************************************************************)
RECURSIVE BitAnd(_, _)
BitAnd(a, b) ==
    IF a = 0 \/ b = 0 THEN 0
    ELSE (IF (a % 2 = 1) /\ (b % 2 = 1) THEN 1 ELSE 0)
         + 2 * BitAnd(a \div 2, b \div 2)

RECURSIVE BitOr(_, _)
BitOr(a, b) ==
    IF a = 0 THEN b
    ELSE IF b = 0 THEN a
    ELSE (IF (a % 2 = 1) \/ (b % 2 = 1) THEN 1 ELSE 0)
         + 2 * BitOr(a \div 2, b \div 2)

RECURSIVE Pow2(_)
Pow2(n) == IF n = 0 THEN 1 ELSE 2 * Pow2(n - 1)

(***************************************************************************)
(* The build target.  The crate is no_std and states no pointer width; the *)
(* sizes it takes with size_of depend on the target it is built for.       *)
(***************************************************************************)
VARIABLE
    target    \* the size of usize and of a pointer, and the alignment of
              \* u64, in bytes

\* a 64-bit target
Target64 == [usize |-> 8, align_u64 |-> 8]
\* 32-bit targets: u64 is aligned to 8 on ARM, RISC-V and wasm32, to 4 on
\* x86 Linux
Targets ==
    {Target64, [usize |-> 4, align_u64 |-> 8], [usize |-> 4, align_u64 |-> 4]}

size_of_usize == target.usize
size_of_ptr == target.usize
align_of_u64 == target.align_u64

\* the next multiple of a from n on
AlignUp(n, a) == ((n + a - 1) \div a) * a

(***************************************************************************)
(* Program constants.                                                      *)
(***************************************************************************)
PAGE_SIZE == Pow2(PageBits)
\* size_of::<PageHeader>(): two pointers
PageHeaderSize == size_of_ptr + size_of_ptr
PAGE_CAPACITY == PAGE_SIZE - PageHeaderSize
NOT_READY == 128
LEN_MASK == 127
LARGE_STR_ADVANCE == size_of_usize + 8 + size_of_ptr + size_of_ptr
\* the offsets of the fields of the #[repr(C)] LargeStringHeader: each field
\* lies at the next multiple of its alignment after the field before it
OffsetOf_hash == AlignUp(size_of_usize, align_of_u64)
OffsetOf_pool == AlignUp(OffsetOf_hash + 8, size_of_ptr)
OffsetOf_next == OffsetOf_pool + size_of_ptr
OffsetOf_len_zero == OffsetOf_next + size_of_ptr
\* the shard count of PoolInner<P>
P == 2

Null == 0
None == -1
Garbage == <<-1>>

\* !(PAGE_SIZE - 1) on an address of AddrBits bits
PAGE_ALIGN_MASK == (Pow2(AddrBits) - 1) - (PAGE_SIZE - 1)

(***************************************************************************)
(* The strings of the model: a name stands for its bytes.                  *)
(***************************************************************************)
Rep(b, n) == [k \in 1..n |-> b]

\* "X" is a longest small string (126 bytes) and the slots of "X" and "Y"
\* fill a page to its last byte; "L1", "L2", "L3" are shortest large strings
\* (127 bytes), "L1" and "L2" with one hash, "L4" with a hash of the other
\* shard; "N" is the string of one NUL byte, the content of a zeroed page

Bytes(name) ==
    CASE name = "" -> << >>
      [] name = "a" -> <<97>>
      [] name = "X" -> Rep(120, 126)
      [] name = "Y" -> Rep(121, 112)
      [] name = "L1" -> <<65, 97>> \o Rep(108, 125)
      [] name = "L2" -> <<67, 96>> \o Rep(108, 125)
      [] name = "L3" -> <<67>> \o Rep(108, 126)
      [] name = "L4" -> <<66>> \o Rep(108, 126)
      [] name = "N" -> <<0>>

Dict == {"", "a", "N", "X", "Y", "L1", "L2", "L3", "L4"}

StrLen(name) == Len(Bytes(name))

(***************************************************************************)
(* hash_str.  The source hashes with ahash under a seed fixed at build     *)
(* time: a deterministic function of the bytes into u64, which cannot be   *)
(* injective on strings of 127 bytes and more.  The model takes a          *)
(* position-weighted sum of the bytes, kept below HashSpace.               *)
(***************************************************************************)
RECURSIVE WeightedSum(_, _, _)
WeightedSum(bytes, lo, hi) ==
    IF lo > hi THEN 0
    ELSE IF lo = hi THEN lo * bytes[lo]
    ELSE LET mid == (lo + hi) \div 2
         IN  WeightedSum(bytes, lo, mid) + WeightedSum(bytes, mid + 1, hi)

hash_str(string) ==
    (WeightedSum(Bytes(string), 1, StrLen(string)) + StrLen(string)) % HashSpace

\* Self::index_from_hash(hash) of PoolInner<n>: the shard of a hash among n
index_from_hash(n, hash) == BitAnd(hash, n - 1)

(***************************************************************************)
(* State.                                                                  *)
(***************************************************************************)
VARIABLES
    pools,    \* the PoolInner objects ever allocated, by id 1..Len(pools)
    pages,    \* the pages ever allocated
    larges,   \* the large blocks ever allocated
    clones,   \* clones[p]: the live Pool values whose inner is p
    handles,  \* the bag of live PoolStr values
    pc,       \* pc[t]: where thread t is in its operation
    loc,      \* loc[t]: the local variables of the operation of t
    ret,      \* ret[t]: what the last finished operation of t returned
    budget,   \* the operations the threads may still start
    acted,    \* the threads that have started an operation
    dict,     \* the strings the program passes to intern and find
    called,   \* <<pool, string>> of every intern call started
    returned, \* <<pool, string, handle>> of the intern calls that returned
              \* when no intern of that string had returned at their start
    cell      \* the PoolCell of the program: the Option<Pool> in its Mutex
              \* (pool, 0 for None) and the thread that holds the lock
              \* (guard, 0 for none)

vars == <<pools, pages, larges, clones, handles, pc, loc, ret, budget, acted,
          dict, called, returned, cell, target>>

\* what no step of a running call changes
env == <<budget, acted, dict, cell, target>>

(***************************************************************************)
(* Memory layout.  A page of id p lies at address p * PAGE_SIZE (alloc     *)
(* with PAGE_LAYOUT aligns it to PAGE_SIZE); the large block of id e lies  *)
(* 8 bytes into the e-th PAGE_SIZE block above the pages.                  *)
(***************************************************************************)
PageBase(p) == p * PAGE_SIZE
\* &page.entries[i] as *const u8
SlotAddr(p, i) == PageBase(p) + PageHeaderSize + i
LargeBase(e) == (MaxPages + e) * PAGE_SIZE + 8
\* &large_string.len_zero as *const u8
AnchorAddr(e) == LargeBase(e) + OffsetOf_len_zero

IsPageAddr(addr) == (addr \div PAGE_SIZE) \in 1..Len(pages)
PageAt(addr) == addr \div PAGE_SIZE
IsLargeAddr(addr) == ((addr \div PAGE_SIZE) - MaxPages) \in 1..Len(larges)
LargeAt(addr) == (addr \div PAGE_SIZE) - MaxPages

\* the byte at an address (len_ptr.read())
ReadByte(addr) ==
    IF IsPageAddr(addr)
    THEN LET off == (addr % PAGE_SIZE) - PageHeaderSize
         IN  IF off >= 0 THEN pages[PageAt(addr)].entries[off + 1] ELSE 0
    ELSE IF IsLargeAddr(addr)
    THEN LET off == addr - AnchorAddr(LargeAt(addr))
             ls == larges[LargeAt(addr)]
         IN  IF off = 0 THEN ls.len_zero
             ELSE IF off >= 1 /\ off <= Len(ls.bytes) THEN ls.bytes[off]
             ELSE 0
    ELSE 0

\* whether the block holding an address has been deallocated
Freed(addr) ==
    IF IsPageAddr(addr) THEN pages[PageAt(addr)].freed > 0
    ELSE IF IsLargeAddr(addr) THEN larges[LargeAt(addr)].freed > 0
    ELSE TRUE

\* from_raw_parts(start, len): the len bytes from an address on, Garbage
\* when they leave the block or the block is deallocated
ReadBytes(start, len) ==
    IF Freed(start) THEN Garbage
    ELSE IF IsPageAddr(start)
    THEN LET off == (start % PAGE_SIZE) - PageHeaderSize
         IN  IF off >= 0 /\ off + len <= PAGE_CAPACITY
             THEN SubSeq(pages[PageAt(start)].entries, off + 1, off + len)
             ELSE Garbage
    ELSE LET off == start - AnchorAddr(LargeAt(start))
             ls == larges[LargeAt(start)]
         IN  IF off = 1 /\ len <= Len(ls.bytes)
             THEN SubSeq(ls.bytes, 1, len)
             ELSE Garbage

\* the field of a large block that lies at an address
HeaderField(addr) ==
    IF IsLargeAddr(addr)
    THEN LET off == addr - LargeBase(LargeAt(addr))
         IN  IF off = 0 THEN "len"
             ELSE IF off = OffsetOf_hash THEN "hash"
             ELSE IF off = OffsetOf_pool THEN "pool"
             ELSE IF off = OffsetOf_next THEN "next"
             ELSE "none"
    ELSE "none"

\* get_large_string(len_u8_ptr): the address LARGE_STR_ADVANCE before the
\* anchor, taken for the address of the header
get_large_string(len_ptr) == len_ptr - LARGE_STR_ADVANCE

\* large.rs read_actual_string_len: the len field of that header; None
\* stands for what is read when the len of no large block lies there
read_actual_string_len(len_ptr) ==
    IF HeaderField(get_large_string(len_ptr)) = "len"
    THEN larges[LargeAt(get_large_string(len_ptr))].len
    ELSE None

\* lib.rs Deref for PoolStr
Deref(len_ptr) ==
    IF len_ptr # Null
    THEN LET byte == ReadByte(len_ptr)
             len == IF byte = 0 THEN read_actual_string_len(len_ptr) ELSE byte
         IN  IF Freed(len_ptr) \/ len = None THEN Garbage
             ELSE ReadBytes(len_ptr + 1, len)
    ELSE << >>

\* small.rs string_pool_ptr: the page is found by masking the address
small_string_pool_ptr(len_ptr) ==
    IF IsPageAddr(BitAnd(len_ptr, PAGE_ALIGN_MASK))
    THEN pages[PageAt(BitAnd(len_ptr, PAGE_ALIGN_MASK))].pool
    ELSE None

\* large.rs string_pool_ptr: the pool field of that header; None stands for
\* a pointer that is no PoolInner, read where the pool field of no large
\* block lies
large_string_pool_ptr(len_ptr) ==
    IF HeaderField(get_large_string(len_ptr) + OffsetOf_pool) = "pool"
    THEN larges[LargeAt(get_large_string(len_ptr))].pool
    ELSE None

\* PoolStr::pool_ptr: None for the empty handle
pool_ptr(len_ptr) ==
    IF len_ptr # Null
    THEN IF ReadByte(len_ptr) = 0
         THEN large_string_pool_ptr(len_ptr)
         ELSE small_string_pool_ptr(len_ptr)
    ELSE None

\* traits.rs PartialEq for PoolStr
PoolStr_eq(a, b) == a = b \/ Deref(a) = Deref(b)

(***************************************************************************)
(* Threads.  A thread is idle or inside one operation; loc[t] holds the    *)
(* local variables of the operation and records of the call kept for the  *)
(* properties: seen (an intern of the same string had returned when the   *)
(* call started), quiet (no intern of the same string was running when    *)
(* the call started) and made (what the call reserved or allocated).      *)
(***************************************************************************)
NoLoc == [op |-> "none", pool |-> 0, string |-> "", hash |-> 0, ref |-> 0,
          page |-> 0, i |-> 0, last |-> 0, new |-> 0, val |-> 0,
          seen |-> FALSE, quiet |-> FALSE, made |-> {}, racy |-> {},
          stale |-> FALSE]

\* PoolCell::new(): Mutex::new(None)
NoCell == [pool |-> 0, guard |-> 0]

NoRet == [op |-> "none", pool |-> 0, string |-> "", val |-> None, text |-> "",
          seen |-> FALSE, made |-> {}]

Idle(t) == pc[t] = "idle"

\* thread t starts an operation that counts against the budget; the threads
\* are interchangeable, and the first operation is thread 1's
StartOp(t) ==
    /\ Idle(t)
    /\ budget > 0
    /\ t = 1 \/ acted # {}
    /\ budget' = budget - 1
    /\ acted' = acted \cup {t}
    /\ UNCHANGED <<dict, target>>

\* an operation on a pool or a handle
Begin(t) == StartOp(t) /\ UNCHANGED cell

\* a Pool value of inner p that thread t may use: the pool is not borrowed
\* by a running call once its last Pool value is dropped
Running(p) == {t \in Threads : loc[t].op \in {"intern", "find"} /\ loc[t].pool = p}

SetLoc(t, l) == loc' = [loc EXCEPT ![t] = l]
Goto(t, label) == pc' = [pc EXCEPT ![t] = label]

(***************************************************************************)
(* PoolInner: the reference count.                                         *)
(***************************************************************************)
\* inc_ref_count: ref_count.fetch_add(1, SeqCst)
inc_ref_count(p) == [pools EXCEPT ![p].ref_count = @ + 1]

\* dec_ref_count: ref_count.fetch_sub(1, SeqCst)
dec_ref_count(p) == [pools EXCEPT ![p].ref_count = @ - 1]

\* the count after the decrement taken for the count before it
was_last_ref_PostValue(old) == old - 1 = 1

\* dec_ref_count's result: fetch_sub returned 1
was_last_ref(old) == old = 1

(***************************************************************************)
(* Small tier (small.rs).                                                  *)
(***************************************************************************)
\* read_atomic_slot_len: (bytes_to_skip, ready) of a length byte
read_atomic_slot_len(byte) ==
    IF BitAnd(byte, NOT_READY) = 0
    THEN <<byte, TRUE>>
    ELSE <<BitAnd(byte, LEN_MASK), FALSE>>

\* &self.entries[i]
EntryAt(page, i) == pages[page].entries[i + 1]

\* the slice taken one byte early, from the length byte on
EntrySlice_OneEarly(page, s, e) == SubSeq(pages[page].entries, s, e - 1)

\* &self.entries[s..e]
EntrySlice(page, s, e) == SubSeq(pages[page].entries, s + 1, e)

\* the room test of try_intern: s + slice.len() <= PAGE_CAPACITY
SlotFits(s, n) == s + n <= PAGE_CAPACITY

\* the walk as an unbounded loop, without the test of i against the capacity
InPage_Unbounded(i) == TRUE

\* the loop test of Page::find and Page::try_intern
InPage(i) == i < PAGE_CAPACITY

(***************************************************************************)
(* &self.entries[s..e] == slice.  read_atomic_slot_len loads the length    *)
(* byte with Relaxed ordering, which takes no acquire from the SeqCst      *)
(* compare_exchange that published the slot, and the bytes are then read   *)
(* by plain loads: for a slot whose bytes were copied while the call runs  *)
(* (loc[t].racy) the reads race with the copy, and they return the bytes   *)
(* written or the bytes of the page before the copy, zeros.  The operator  *)
(* is the set of the results the comparison can have.                      *)
(***************************************************************************)
SliceEquals(t, page, s, e, slice) ==
    {EntrySlice(page, s, e) = slice} \cup
    {Rep(0, e - s) = slice : x \in {SlotAddr(page, s - 1)} \cap loc[t].racy}

\* the labels of a walk that may still read slots
Walking == {"is_load", "ti_read", "ti_cas1", "is_alloc", "is_append",
            "fs_load", "pf_read"}

\* the copy into the slot at addr is not ordered before the reads that the
\* walks of the other threads running at this moment make of its bytes
MarkRacy(t, addr, len) ==
    [x \in Threads |->
        IF x # t /\ pc[x] \in Walking /\ StrLen(loc[x].string) = len
        THEN [loc[x] EXCEPT !.racy = @ \cup {addr}]
        ELSE loc[x]]

\* a length byte set by compare_exchange(prev, new) when it holds prev
SetEntry(page, i, byte) ==
    [pages EXCEPT ![page].entries = [@ EXCEPT ![i + 1] = byte]]

\* self.entries[s..j].copy_from_slice(slice)
CopySlice(page, s, slice) ==
    [pages EXCEPT ![page].entries =
        [k \in 1..PAGE_CAPACITY |->
            IF k > s /\ k <= s + Len(slice) THEN slice[k - s] ELSE @[k]]]

\* the AtomicPtr<Page> a page_ptr_ref names: 0 is &self.first_page, a page
\* id is that page's &header.next
LoadPageRef(p, ref) == IF ref = 0 THEN pools[p].first_page ELSE pages[ref].next

StorePageRef(p, ref, ptr) ==
    IF ref = 0
    THEN /\ pools' = [pools EXCEPT ![p].first_page = ptr]
         /\ UNCHANGED pages
    ELSE /\ pages' = [pages EXCEPT ![ref].next = ptr]
         /\ UNCHANGED pools

\* alloc(PAGE_LAYOUT), header set, entries.fill(0); by records, for the
\* properties, <<offset, thread>> of every slot reserved in the page
NewPage(p) == [next |-> Null, pool |-> p,
               entries |-> [k \in 1..PAGE_CAPACITY |-> 0], freed |-> 0,
               by |-> {}]

\* the first compare_exchange of thread t on the length byte at offset i has
\* succeeded
Reserve(t, page, i, byte) ==
    [SetEntry(page, i, byte) EXCEPT ![page].by = @ \cup {<<i, t>>}]

\* intern_small, line 147: page_ptr_ref.load(Relaxed)
IS_Load(t) ==
    /\ pc[t] = "is_load"
    /\ LET l == loc[t]
           ptr == LoadPageRef(l.pool, l.ref)
       IN  IF ptr # Null
           THEN /\ SetLoc(t, [l EXCEPT !.page = ptr, !.i = 0])
                /\ Goto(t, "ti_read")
           ELSE /\ SetLoc(t, [l EXCEPT !.last = l.ref])
                /\ Goto(t, "is_alloc")
    /\ UNCHANGED <<pools, pages, larges, clones, handles, ret, env, called, returned>>

\* a walk that compares no slot with the string: every READY slot is passed
TI_Read_NoReuse(t) ==
    /\ pc[t] = "ti_read"
    /\ LET l == loc[t]
           slice == Bytes(l.string)
           lr == read_atomic_slot_len(EntryAt(l.page, l.i))
           len == lr[1]
           ready == lr[2]
           s == l.i + 1
       IN  IF ready /\ len = Len(slice)
           THEN \E eq \in {FALSE} :
                LET m == [l EXCEPT !.stale = (eq # (EntrySlice(l.page, s, s + len) = slice))]
                IN  IF eq
                    THEN \* re-use the entry
                         /\ SetLoc(t, [m EXCEPT !.val = SlotAddr(l.page, l.i)])
                         /\ Goto(t, "is_inc")
                    ELSE IF InPage(s + len)
                    THEN /\ SetLoc(t, [m EXCEPT !.i = s + len])
                         /\ UNCHANGED pc
                    ELSE /\ SetLoc(t, [m EXCEPT !.ref = l.page])
                         /\ Goto(t, "is_load")
           ELSE IF ready /\ len = 0
           THEN IF SlotFits(s, Len(slice))
                THEN /\ Goto(t, "ti_cas1")
                     /\ UNCHANGED loc
                ELSE \* to next page
                     /\ SetLoc(t, [l EXCEPT !.ref = l.page])
                     /\ Goto(t, "is_load")
           ELSE IF InPage(s + len)
           THEN /\ SetLoc(t, [l EXCEPT !.i = s + len])
                /\ UNCHANGED pc
           ELSE /\ SetLoc(t, [l EXCEPT !.ref = l.page])
                /\ Goto(t, "is_load")
    /\ UNCHANGED <<pools, pages, larges, clones, handles, ret, env, called, returned>>

\* a walk that passes a WRITING slot by its length byte alone, into its bytes
TI_Read_IntoBytes(t) ==
    /\ pc[t] = "ti_read"
    /\ LET l == loc[t]
           slice == Bytes(l.string)
           lr == read_atomic_slot_len(EntryAt(l.page, l.i))
           len == lr[1]
           ready == lr[2]
           s == l.i + 1
       IN  IF ready /\ len = Len(slice)
           THEN \E eq \in SliceEquals(t, l.page, s, s + len, slice) :
                LET m == [l EXCEPT !.stale = (eq # (EntrySlice(l.page, s, s + len) = slice))]
                IN  IF eq
                    THEN \* re-use the entry
                         /\ SetLoc(t, [m EXCEPT !.val = SlotAddr(l.page, l.i)])
                         /\ Goto(t, "is_inc")
                    ELSE IF InPage(s + len)
                    THEN /\ SetLoc(t, [m EXCEPT !.i = s + len])
                         /\ UNCHANGED pc
                    ELSE /\ SetLoc(t, [m EXCEPT !.ref = l.page])
                         /\ Goto(t, "is_load")
           ELSE IF ready /\ len = 0
           THEN IF SlotFits(s, Len(slice))
                THEN /\ Goto(t, "ti_cas1")
                     /\ UNCHANGED loc
                ELSE \* to next page
                     /\ SetLoc(t, [l EXCEPT !.ref = l.page])
                     /\ Goto(t, "is_load")
           ELSE IF InPage(s + len)
           THEN /\ SetLoc(t, [l EXCEPT !.i = s + (IF ready THEN len ELSE 0)])
                /\ UNCHANGED pc
           ELSE /\ SetLoc(t, [l EXCEPT !.ref = l.page])
                /\ Goto(t, "is_load")
    /\ UNCHANGED <<pools, pages, larges, clones, handles, ret, env, called, returned>>

\* a walk that leaves the page at a WRITING slot
TI_Read_NextOnWriting(t) ==
    /\ pc[t] = "ti_read"
    /\ LET l == loc[t]
           slice == Bytes(l.string)
           lr == read_atomic_slot_len(EntryAt(l.page, l.i))
           len == lr[1]
           ready == lr[2]
           s == l.i + 1
       IN  IF ready /\ len = Len(slice)
           THEN \E eq \in SliceEquals(t, l.page, s, s + len, slice) :
                LET m == [l EXCEPT !.stale = (eq # (EntrySlice(l.page, s, s + len) = slice))]
                IN  IF eq
                    THEN \* re-use the entry
                         /\ SetLoc(t, [m EXCEPT !.val = SlotAddr(l.page, l.i)])
                         /\ Goto(t, "is_inc")
                    ELSE IF InPage(s + len)
                    THEN /\ SetLoc(t, [m EXCEPT !.i = s + len])
                         /\ UNCHANGED pc
                    ELSE /\ SetLoc(t, [m EXCEPT !.ref = l.page])
                         /\ Goto(t, "is_load")
           ELSE IF ready /\ len = 0
           THEN IF SlotFits(s, Len(slice))
                THEN /\ Goto(t, "ti_cas1")
                     /\ UNCHANGED loc
                ELSE \* to next page
                     /\ SetLoc(t, [l EXCEPT !.ref = l.page])
                     /\ Goto(t, "is_load")
           ELSE IF ready /\ InPage(s + len)
           THEN /\ SetLoc(t, [l EXCEPT !.i = s + len])
                /\ UNCHANGED pc
           ELSE /\ SetLoc(t, [l EXCEPT !.ref = l.page])
                /\ Goto(t, "is_load")
    /\ UNCHANGED <<pools, pages, larges, clones, handles, ret, env, called, returned>>

\* Page::try_intern, lines 53-98: one turn of the loop up to its CAS
TI_Read(t) ==
    /\ pc[t] = "ti_read"
    /\ LET l == loc[t]
           slice == Bytes(l.string)
           lr == read_atomic_slot_len(EntryAt(l.page, l.i))
           len == lr[1]
           ready == lr[2]
           s == l.i + 1
       IN  IF ready /\ len = Len(slice)
           THEN \E eq \in SliceEquals(t, l.page, s, s + len, slice) :
                LET m == [l EXCEPT !.stale = (eq # (EntrySlice(l.page, s, s + len) = slice))]
                IN  IF eq
                    THEN \* re-use the entry
                         /\ SetLoc(t, [m EXCEPT !.val = SlotAddr(l.page, l.i)])
                         /\ Goto(t, "is_inc")
                    ELSE IF InPage(s + len)
                    THEN /\ SetLoc(t, [m EXCEPT !.i = s + len])
                         /\ UNCHANGED pc
                    ELSE /\ SetLoc(t, [m EXCEPT !.ref = l.page])
                         /\ Goto(t, "is_load")
           ELSE IF ready /\ len = 0
           THEN IF SlotFits(s, Len(slice))
                THEN /\ Goto(t, "ti_cas1")
                     /\ UNCHANGED loc
                ELSE \* to next page
                     /\ SetLoc(t, [l EXCEPT !.ref = l.page])
                     /\ Goto(t, "is_load")
           ELSE IF InPage(s + len)
           THEN /\ SetLoc(t, [l EXCEPT !.i = s + len])
                /\ UNCHANGED pc
           ELSE /\ SetLoc(t, [l EXCEPT !.ref = l.page])
                /\ Goto(t, "is_load")
    /\ UNCHANGED <<pools, pages, larges, clones, handles, ret, env, called, returned>>

\* the slot reserved by a plain store in the place of compare_exchange
TI_Cas1_Store(t) ==
    /\ pc[t] = "ti_cas1"
    /\ LET l == loc[t]
           len == BitOr(StrLen(l.string), NOT_READY)
       IN  /\ pages' = Reserve(t, l.page, l.i, len)
           /\ SetLoc(t, [l EXCEPT !.made = @ \cup {"slot"}])
           /\ Goto(t, "ti_copy")
    /\ UNCHANGED <<pools, larges, clones, handles, ret, env, called, returned>>

\* Page::try_intern, line 77: try_set_len(&self.entries[i], 0, len | NOT_READY)
TI_Cas1(t) ==
    /\ pc[t] = "ti_cas1"
    /\ LET l == loc[t]
           len == BitOr(StrLen(l.string), NOT_READY)
       IN  IF EntryAt(l.page, l.i) = 0
           THEN /\ pages' = Reserve(t, l.page, l.i, len)
                /\ SetLoc(t, [l EXCEPT !.made = @ \cup {"slot"}])
                /\ Goto(t, "ti_copy")
           ELSE \* retry this entry
                /\ Goto(t, "ti_read")
                /\ UNCHANGED <<pages, loc>>
    /\ UNCHANGED <<pools, larges, clones, handles, ret, env, called, returned>>

\* Page::try_intern, lines 79-80: the bytes are copied
TI_Copy(t) ==
    /\ pc[t] = "ti_copy"
    /\ pages' = CopySlice(loc[t].page, loc[t].i + 1, Bytes(loc[t].string))
    /\ loc' = MarkRacy(t, SlotAddr(loc[t].page, loc[t].i), StrLen(loc[t].string))
    /\ Goto(t, "ti_cas2")
    /\ UNCHANGED <<pools, larges, clones, handles, ret, env, called, returned>>

\* the handle returned with the NOT_READY flag left on its length byte
TI_Cas2_KeepFlag(t) ==
    /\ pc[t] = "ti_cas2"
    /\ SetLoc(t, [loc[t] EXCEPT !.val = SlotAddr(loc[t].page, loc[t].i)])
    /\ Goto(t, "is_inc")
    /\ UNCHANGED <<pools, pages, larges, clones, handles, ret, env, called, returned>>

\* Page::try_intern, line 83: assert!(try_set_len(.., len, len & LEN_MASK))
TI_Cas2(t) ==
    /\ pc[t] = "ti_cas2"
    /\ LET l == loc[t]
           len == BitOr(StrLen(l.string), NOT_READY)
       IN  IF EntryAt(l.page, l.i) = len
           THEN /\ pages' = SetEntry(l.page, l.i, BitAnd(len, LEN_MASK))
                /\ SetLoc(t, [l EXCEPT !.val = SlotAddr(l.page, l.i)])
                /\ Goto(t, "is_inc")
           ELSE /\ Goto(t, "panic")
                /\ UNCHANGED <<pages, loc>>
    /\ UNCHANGED <<pools, larges, clones, handles, ret, env, called, returned>>

\* intern_small, lines 158-169: a page is allocated and zeroed
IS_Alloc(t) ==
    /\ pc[t] = "is_alloc"
    /\ Len(pages) < MaxPages
    /\ pages' = Append(pages, NewPage(loc[t].pool))
    /\ SetLoc(t, [loc[t] EXCEPT !.new = Len(pages) + 1, !.made = @ \cup {"page"}])
    /\ Goto(t, "is_append")
    /\ UNCHANGED <<pools, larges, clones, handles, ret, env, called, returned>>

\* the page stored with a plain store in the place of compare_exchange
IS_Append_Store(t) ==
    /\ pc[t] = "is_append"
    /\ StorePageRef(loc[t].pool, loc[t].ref, loc[t].new)
    /\ SetLoc(t, [loc[t] EXCEPT !.ref = loc[t].last])
    /\ Goto(t, "is_load")
    /\ UNCHANGED <<larges, clones, handles, ret, env, called, returned>>

\* the allocated page given up when another thread appended first
IS_Append_Drop(t) ==
    /\ pc[t] = "is_append"
    /\ LET l == loc[t]
       IN  IF LoadPageRef(l.pool, l.ref) = Null
           THEN /\ StorePageRef(l.pool, l.ref, l.new)
                /\ SetLoc(t, [l EXCEPT !.ref = l.last])
                /\ Goto(t, "is_load")
           ELSE /\ SetLoc(t, [l EXCEPT !.ref = l.last])
                /\ Goto(t, "is_load")
                /\ UNCHANGED <<pools, pages>>
    /\ UNCHANGED <<larges, clones, handles, ret, env, called, returned>>

\* the append retried on the same pointer, without the chase to the page
\* another thread appended
IS_Append_NoChase(t) ==
    /\ pc[t] = "is_append"
    /\ LET l == loc[t]
       IN  IF LoadPageRef(l.pool, l.ref) = Null
           THEN /\ StorePageRef(l.pool, l.ref, l.new)
                /\ SetLoc(t, [l EXCEPT !.ref = l.last])
                /\ Goto(t, "is_load")
           ELSE UNCHANGED <<pools, pages, pc, loc>>
    /\ UNCHANGED <<larges, clones, handles, ret, env, called, returned>>

\* intern_small, lines 172-187: compare_exchange(null, new_page_ptr), the
\* chase on failure, the restart from the first unexplored page on success
IS_Append(t) ==
    /\ pc[t] = "is_append"
    /\ LET l == loc[t]
           cur == LoadPageRef(l.pool, l.ref)
       IN  IF cur = Null
           THEN /\ StorePageRef(l.pool, l.ref, l.new)
                /\ SetLoc(t, [l EXCEPT !.ref = l.last])
                /\ Goto(t, "is_load")
           ELSE /\ SetLoc(t, [l EXCEPT !.ref = cur])
                /\ UNCHANGED <<pools, pages, pc>>
    /\ UNCHANGED <<larges, clones, handles, ret, env, called, returned>>

\* the string of the program that has the given bytes ("?" when none has)
NameOf(bytes) ==
    IF \E n \in Dict : Bytes(n) = bytes
    THEN CHOOSE n \in Dict : Bytes(n) = bytes
    ELSE "?"

\* a live PoolStr value: its pointer, and for the properties the call that
\* made it (by), the string passed to that call (str) and the string it
\* dereferenced to when the call returned (text)
Handle(val, by, str) ==
    [len_ptr |-> val, by |-> by, str |-> str, text |-> NameOf(Deref(val))]

\* a call returns: the handle (None for no handle) is handed to the program
Return(t, val) ==
    /\ ret' = [ret EXCEPT ![t] =
                 [op |-> loc[t].op, pool |-> loc[t].pool, string |-> loc[t].string,
                  val |-> val,
                  text |-> IF val = None THEN "" ELSE NameOf(Deref(val)),
                  seen |-> loc[t].seen, made |-> loc[t].made]]
    /\ handles' = IF val = None THEN handles
                  ELSE handles (+) SetToBag({Handle(val, loc[t].op, loc[t].string)})
    /\ returned' = IF loc[t].op = "intern" /\ ~loc[t].seen
                   THEN returned \cup {<<loc[t].pool, loc[t].string, val>>}
                   ELSE returned
    /\ SetLoc(t, NoLoc)
    /\ Goto(t, "idle")

\* intern_small, lines 148-151: self.inc_ref_count(); return pool_str
IS_Inc(t) ==
    /\ pc[t] = "is_inc"
    /\ pools' = inc_ref_count(loc[t].pool)
    /\ Return(t, loc[t].val)
    /\ UNCHANGED <<pages, larges, clones, env, called>>

\* find_small, lines 128-137: the load of first_page or of header.next
FS_Load(t) ==
    /\ pc[t] = "fs_load"
    /\ LET l == loc[t]
           ptr == LoadPageRef(l.pool, l.ref)
       IN  IF ptr # Null
           THEN /\ SetLoc(t, [l EXCEPT !.page = ptr, !.i = 0])
                /\ Goto(t, "pf_read")
                /\ UNCHANGED <<ret, handles, returned>>
           ELSE Return(t, None)
    /\ UNCHANGED <<pools, pages, larges, clones, env, called>>

\* find_small walking the page with try_intern in the place of find
PF_Read_TryIntern(t) ==
    /\ pc[t] = "pf_read"
    /\ LET l == loc[t]
           slice == Bytes(l.string)
           lr == read_atomic_slot_len(EntryAt(l.page, l.i))
           len == lr[1]
           ready == lr[2]
           s == l.i + 1
       IN  IF ready /\ len = Len(slice)
           THEN \E eq \in SliceEquals(t, l.page, s, s + len, slice) :
                LET m == [l EXCEPT !.stale = (eq # (EntrySlice(l.page, s, s + len) = slice))]
                IN  IF eq
                    THEN /\ SetLoc(t, [m EXCEPT !.val = SlotAddr(l.page, l.i)])
                         /\ Goto(t, "fs_inc")
                    ELSE IF InPage(s + len)
                    THEN /\ SetLoc(t, [m EXCEPT !.i = s + len])
                         /\ UNCHANGED pc
                    ELSE /\ SetLoc(t, [m EXCEPT !.ref = l.page])
                         /\ Goto(t, "fs_load")
           ELSE IF ready /\ len = 0
           THEN IF SlotFits(s, Len(slice))
                THEN /\ Goto(t, "ti_cas1")
                     /\ UNCHANGED loc
                ELSE /\ SetLoc(t, [l EXCEPT !.ref = l.page])
                     /\ Goto(t, "fs_load")
           ELSE IF InPage(s + len)
           THEN /\ SetLoc(t, [l EXCEPT !.i = s + len])
                /\ UNCHANGED pc
           ELSE /\ SetLoc(t, [l EXCEPT !.ref = l.page])
                /\ Goto(t, "fs_load")
    /\ UNCHANGED <<pools, pages, larges, clones, handles, ret, env, called, returned>>

\* Page::find, lines 28-46: one turn of the loop
PF_Read(t) ==
    /\ pc[t] = "pf_read"
    /\ LET l == loc[t]
           slice == Bytes(l.string)
           lr == read_atomic_slot_len(EntryAt(l.page, l.i))
           len == lr[1]
           ready == lr[2]
           i == l.i + 1
       IN  IF ready /\ len = Len(slice)
           THEN \E eq \in SliceEquals(t, l.page, i, i + len, slice) :
                LET m == [l EXCEPT !.stale = (eq # (EntrySlice(l.page, i, i + len) = slice))]
                IN  IF eq
                    THEN /\ SetLoc(t, [m EXCEPT !.val = SlotAddr(l.page, i - 1)])
                         /\ Goto(t, "fs_inc")
                    ELSE IF InPage(i + len)
                    THEN /\ SetLoc(t, [m EXCEPT !.i = i + len])
                         /\ UNCHANGED pc
                    ELSE /\ SetLoc(t, [m EXCEPT !.ref = l.page])
                         /\ Goto(t, "fs_load")
           ELSE IF ready /\ len = 0
           THEN /\ SetLoc(t, [l EXCEPT !.ref = l.page])
                /\ Goto(t, "fs_load")
           ELSE IF InPage(i + len)
           THEN /\ SetLoc(t, [l EXCEPT !.i = i + len])
                /\ UNCHANGED pc
           ELSE /\ SetLoc(t, [l EXCEPT !.ref = l.page])
                /\ Goto(t, "fs_load")
    /\ UNCHANGED <<pools, pages, larges, clones, handles, ret, env, called, returned>>

\* find_small, lines 131-134: self.inc_ref_count(); return Some(pool_str)
FS_Inc(t) ==
    /\ pc[t] = "fs_inc"
    /\ pools' = inc_ref_count(loc[t].pool)
    /\ Return(t, loc[t].val)
    /\ UNCHANGED <<pages, larges, clones, env, called>>

(***************************************************************************)
(* Large tier (large.rs).                                                  *)
(***************************************************************************)
\* the const parameter P of the PoolInner<P> that pool p is
ShardCount(p) == Len(pools[p].first_large_string)

\* the AtomicPtr<LargeStringHeader> a ptr names: 0 is
\* &self.first_large_string[pool_index], an id is that entry's &next
LoadLargeRef(p, hash, ref) ==
    IF ref = 0
    THEN pools[p].first_large_string[index_from_hash(ShardCount(p), hash) + 1]
    ELSE larges[ref].next

\* the head of the first shard written whatever the hash
StoreLargeRef_FirstShard(p, hash, ref, ptr) ==
    IF ref = 0
    THEN /\ pools' = [pools EXCEPT ![p].first_large_string[1] = ptr]
         /\ UNCHANGED larges
    ELSE /\ larges' = [larges EXCEPT ![ref].next = ptr]
         /\ UNCHANGED pools

StoreLargeRef(p, hash, ref, ptr) ==
    IF ref = 0
    THEN /\ pools' = [pools EXCEPT
                 ![p].first_large_string[
                     index_from_hash(ShardCount(p), hash) + 1] = ptr]
         /\ UNCHANGED larges
    ELSE /\ larges' = [larges EXCEPT ![ref].next = ptr]
         /\ UNCHANGED pools

\* the hash test of find_large and intern_large
HashMatch(entry, hash) == larges[entry].hash = hash

\* intern_large, lines 71-83: the block allocated and initialised
NewLarge(p, string, hash) ==
    [len |-> StrLen(string), hash |-> hash, pool |-> p, next |-> Null,
     len_zero |-> 0, bytes |-> Bytes(string), freed |-> 0]

\* find_large, lines 26-37: the load of a pointer and the test of its entry
FL_Load(t) ==
    /\ pc[t] = "fl_load"
    /\ LET l == loc[t]
           ptr == LoadLargeRef(l.pool, l.hash, l.ref)
       IN  IF ptr = Null
           THEN Return(t, None)
           ELSE IF HashMatch(ptr, l.hash)
           THEN /\ SetLoc(t, [l EXCEPT !.val = AnchorAddr(ptr)])
                /\ Goto(t, "fl_inc")
                /\ UNCHANGED <<ret, handles, returned>>
           ELSE /\ SetLoc(t, [l EXCEPT !.ref = ptr])
                /\ UNCHANGED <<pc, ret, handles, returned>>
    /\ UNCHANGED <<pools, pages, larges, clones, env, called>>

\* find_large, lines 32-33: self.inc_ref_count(); return Some(..)
FL_Inc(t) ==
    /\ pc[t] = "fl_inc"
    /\ pools' = inc_ref_count(loc[t].pool)
    /\ Return(t, loc[t].val)
    /\ UNCHANGED <<pages, larges, clones, env, called>>

\* the walk that returns an entry it met and leaves its own block allocated
IL_Load_Leak(t) ==
    /\ pc[t] = "il_load"
    /\ LET l == loc[t]
           ptr == LoadLargeRef(l.pool, l.hash, l.ref)
       IN  IF ptr = Null
           THEN /\ Goto(t, IF l.new = 0 THEN "il_alloc" ELSE "il_cas")
                /\ UNCHANGED loc
           ELSE IF HashMatch(ptr, l.hash)
           THEN /\ SetLoc(t, [l EXCEPT !.val = AnchorAddr(ptr)])
                /\ Goto(t, "il_inc")
           ELSE /\ SetLoc(t, [l EXCEPT !.ref = ptr])
                /\ UNCHANGED pc
    /\ UNCHANGED <<pools, pages, larges, clones, handles, ret, env, called, returned>>

\* intern_large, lines 49-59: the load of a pointer and the test of its entry
IL_Load(t) ==
    /\ pc[t] = "il_load"
    /\ LET l == loc[t]
           ptr == LoadLargeRef(l.pool, l.hash, l.ref)
       IN  IF ptr = Null
           THEN /\ Goto(t, IF l.new = 0 THEN "il_alloc" ELSE "il_cas")
                /\ UNCHANGED loc
           ELSE IF HashMatch(ptr, l.hash)
           THEN /\ SetLoc(t, [l EXCEPT !.val = AnchorAddr(ptr)])
                /\ Goto(t, IF l.new # 0 THEN "il_dealloc" ELSE "il_inc")
           ELSE /\ SetLoc(t, [l EXCEPT !.ref = ptr])
                /\ UNCHANGED pc
    /\ UNCHANGED <<pools, pages, larges, clones, handles, ret, env, called, returned>>

\* intern_large, lines 51-53: the preallocated block is deallocated
IL_Dealloc(t) ==
    /\ pc[t] = "il_dealloc"
    /\ larges' = [larges EXCEPT ![loc[t].new].freed = @ + 1]
    /\ Goto(t, "il_inc")
    /\ UNCHANGED <<pools, pages, clones, handles, loc, ret, env, called, returned>>

\* intern_large, lines 64-88: the block is allocated once
IL_Alloc(t) ==
    /\ pc[t] = "il_alloc"
    /\ Len(larges) < MaxLarge
    /\ larges' = Append(larges, NewLarge(loc[t].pool, loc[t].string, loc[t].hash))
    /\ SetLoc(t, [loc[t] EXCEPT !.new = Len(larges) + 1, !.made = @ \cup {"large"}])
    /\ Goto(t, "il_cas")
    /\ UNCHANGED <<pools, pages, clones, handles, ret, env, called, returned>>

\* a failed compare_exchange that moves on to the next field of the entry
\* another thread appended, without the test of its hash
IL_Cas_Chase(t) ==
    /\ pc[t] = "il_cas"
    /\ LET l == loc[t]
       IN  IF LoadLargeRef(l.pool, l.hash, l.ref) = Null
           THEN /\ StoreLargeRef(l.pool, l.hash, l.ref, l.new)
                /\ SetLoc(t, [l EXCEPT !.val = AnchorAddr(l.new),
                                       !.made = @ \cup {"link"}])
                /\ Goto(t, "il_inc")
           ELSE /\ SetLoc(t, [l EXCEPT !.ref = LoadLargeRef(l.pool, l.hash, l.ref)])
                /\ UNCHANGED <<pools, larges, pc>>
    /\ UNCHANGED <<pages, clones, handles, ret, env, called, returned>>

\* intern_large, lines 92-100: ptr.compare_exchange(null, large_string)
IL_Cas(t) ==
    /\ pc[t] = "il_cas"
    /\ LET l == loc[t]
       IN  IF LoadLargeRef(l.pool, l.hash, l.ref) = Null
           THEN /\ StoreLargeRef(l.pool, l.hash, l.ref, l.new)
                /\ SetLoc(t, [l EXCEPT !.val = AnchorAddr(l.new),
                                       !.made = @ \cup {"link"}])
                /\ Goto(t, "il_inc")
           ELSE \* the search restarts at the entry another thread appended
                /\ Goto(t, "il_load")
                /\ UNCHANGED <<pools, larges, loc>>
    /\ UNCHANGED <<pages, clones, handles, ret, env, called, returned>>

\* intern_large, lines 54-55 and 94-95: self.inc_ref_count(); return
IL_Inc(t) ==
    /\ pc[t] = "il_inc"
    /\ pools' = inc_ref_count(loc[t].pool)
    /\ Return(t, loc[t].val)
    /\ UNCHANGED <<pages, larges, clones, env, called>>

(***************************************************************************)
(* Pool, PoolStr: the calls, clone and drop (lib.rs).                      *)
(***************************************************************************)
PoolIds == DOMAIN pools

\* the small range opened at 0 in the place of 1
Tier_ZeroSmall(len) ==
    IF len <= 126 THEN "small" ELSE "large"

\* the small range closed at 127 in the place of 126
Tier_Upto127(len) ==
    IF len = 0 THEN "empty"
    ELSE IF len >= 1 /\ len <= 127 THEN "small"
    ELSE "large"

\* the match on string.len() of PoolInner::find and PoolInner::intern
Tier(len) ==
    IF len = 0 THEN "empty"
    ELSE IF len >= 1 /\ len <= 126 THEN "small"
    ELSE "large"

HasReturned(p, s) == \E r \in returned : r[1] = p /\ r[2] = s

\* the handle the first intern of s on p returned
FirstHandle(p, s) == (CHOOSE r \in returned : r[1] = p /\ r[2] = s)[3]

Enter(t, op, p, s) ==
    [NoLoc EXCEPT !.op = op, !.pool = p, !.string = s,
                  !.hash = IF Tier(StrLen(s)) = "large" THEN hash_str(s) ELSE 0,
                  !.seen = HasReturned(p, s),
                  !.quiet = \A u \in Threads \ {t} :
                               ~(/\ pc[u] # "idle" /\ loc[u].op = "intern"
                                 /\ loc[u].pool = p /\ loc[u].string = s)]

\* PoolStr::empty() returned by intern and find
ReturnEmpty(t, op, p, s) ==
    /\ ret' = [ret EXCEPT ![t] =
                 [op |-> op, pool |-> p, string |-> s, val |-> Null,
                  text |-> NameOf(Deref(Null)),
                  seen |-> HasReturned(p, s), made |-> {}]]
    /\ handles' = handles (+) SetToBag({Handle(Null, op, s)})
    /\ UNCHANGED <<loc, pc>>

\* Pool::intern -> PoolInner::intern
CallIntern(t, p, s) ==
    /\ Begin(t)
    /\ clones[p] > 0
    /\ called' = called \cup {<<p, s>>}
    /\ IF Tier(StrLen(s)) = "empty"
       THEN /\ ReturnEmpty(t, "intern", p, s)
            /\ returned' = IF HasReturned(p, s) THEN returned
                           ELSE returned \cup {<<p, s, Null>>}
       ELSE /\ SetLoc(t, Enter(t, "intern", p, s))
            /\ Goto(t, IF Tier(StrLen(s)) = "small" THEN "is_load" ELSE "il_load")
            /\ ret' = [ret EXCEPT ![t] = NoRet]
            /\ UNCHANGED <<handles, returned>>
    /\ UNCHANGED <<pools, pages, larges, clones>>

\* Pool::find -> PoolInner::find
CallFind(t, p, s) ==
    /\ Begin(t)
    /\ clones[p] > 0
    /\ IF Tier(StrLen(s)) = "empty"
       THEN ReturnEmpty(t, "find", p, s)
       ELSE /\ SetLoc(t, Enter(t, "find", p, s))
            /\ Goto(t, IF Tier(StrLen(s)) = "small" THEN "fs_load" ELSE "fl_load")
            /\ ret' = [ret EXCEPT ![t] = NoRet]
            /\ UNCHANGED handles
    /\ UNCHANGED <<pools, pages, larges, clones, called, returned>>

\* PoolInner::<n>::new
NewPoolInnerOf(n) ==
    [ref_count |-> 1, first_page |-> Null,
     first_large_string |-> [k \in 1..n |-> Null], freed |-> 0,
     last |-> "none"]

\* PoolInner::new behind Pool::new
NewPoolInner == NewPoolInnerOf(P)

\* Pool::new
PoolNew(t) ==
    /\ Begin(t)
    /\ Len(pools) < MaxPools
    /\ pools' = Append(pools, NewPoolInner)
    /\ clones' = Append(clones, 1)
    /\ ret' = [ret EXCEPT ![t] = NoRet]
    /\ UNCHANGED <<pages, larges, handles, pc, loc, called, returned>>

\* Clone for Pool
PoolClone(t, p) ==
    /\ Begin(t)
    /\ clones[p] > 0
    /\ pools' = inc_ref_count(p)
    /\ clones' = [clones EXCEPT ![p] = @ + 1]
    /\ ret' = [ret EXCEPT ![t] = NoRet]
    /\ UNCHANGED <<pages, larges, handles, pc, loc, called, returned>>

\* a clone of a handle that leaves the count alone
HandleClone_NoInc(t, h) ==
    /\ Begin(t)
    /\ BagIn(h, handles)
    /\ handles' = handles (+) SetToBag({h})
    /\ ret' = [ret EXCEPT ![t] = NoRet]
    /\ UNCHANGED <<pools, pages, larges, clones, pc, loc, called, returned>>

\* Clone for PoolStr
HandleClone(t, h) ==
    /\ Begin(t)
    /\ BagIn(h, handles)
    /\ pools' = IF pool_ptr(h.len_ptr) # None
                THEN inc_ref_count(pool_ptr(h.len_ptr))
                ELSE pools
    /\ handles' = handles (+) SetToBag({h})
    /\ ret' = [ret EXCEPT ![t] = NoRet]
    /\ UNCHANGED <<pages, larges, clones, pc, loc, called, returned>>

\* both drops: if pool.dec_ref_count() { deep_drop_pool(pool_ptr) }; the
\* pool records the kind of value whose drop was the last (last), for the
\* properties
DecAndMaybeReclaim(t, p, kind) ==
    IF was_last_ref(pools[p].ref_count)
    THEN /\ pools' = [dec_ref_count(p) EXCEPT ![p].last = kind]
         /\ SetLoc(t, [NoLoc EXCEPT !.op = "drop", !.pool = p])
         /\ Goto(t, "reclaim")
    ELSE /\ pools' = dec_ref_count(p)
         /\ UNCHANGED <<loc, pc>>

\* Drop for Pool.  A Pool value borrowed by a running call is not dropped.
PoolDrop(t, p) ==
    /\ Idle(t)
    /\ clones[p] > 0
    /\ clones[p] > 1 \/ Running(p) = {}
    /\ clones' = [clones EXCEPT ![p] = @ - 1]
    /\ DecAndMaybeReclaim(t, p, "Pool")
    /\ ret' = [ret EXCEPT ![t] = NoRet]
    /\ UNCHANGED <<pages, larges, handles, env, called, returned>>

\* Drop for PoolStr
HandleDrop(t, h) ==
    /\ Idle(t)
    /\ BagIn(h, handles)
    /\ handles' = handles (-) SetToBag({h})
    /\ LET p == pool_ptr(h.len_ptr)
       IN  IF p # None
           THEN DecAndMaybeReclaim(t, p, "PoolStr")
           ELSE UNCHANGED <<pools, loc, pc>>
    /\ ret' = [ret EXCEPT ![t] = NoRet]
    /\ UNCHANGED <<pages, larges, clones, env, called, returned>>

(***************************************************************************)
(* PoolCell (static_pool.rs): a Mutex<Option<Pool>> filled by the first    *)
(* call of pool().  The Pool value the cell holds is not one of clones[p]: *)
(* the program cannot drop it.                                             *)
(***************************************************************************)
CellFrame ==
    UNCHANGED <<pages, larges, handles, budget, acted, dict, called, returned,
                target>>

\* a call of PoolCell::pool
CellPool(t) ==
    /\ StartOp(t)
    /\ SetLoc(t, [NoLoc EXCEPT !.op = "pool"])
    /\ Goto(t, "pc_lock")
    /\ ret' = [ret EXCEPT ![t] = NoRet]
    /\ UNCHANGED <<pools, pages, larges, clones, handles, called, returned, cell>>

\* a lock that is taken while another thread holds it
PC_Lock_NoMutex(t) ==
    /\ pc[t] = "pc_lock"
    /\ cell' = [cell EXCEPT !.guard = t]
    /\ Goto(t, "pc_check")
    /\ CellFrame
    /\ UNCHANGED <<pools, clones, loc, ret>>

\* line 26: self.pool.lock(); the thread waits while the mutex is held
PC_Lock(t) ==
    /\ pc[t] = "pc_lock"
    /\ cell.guard = 0
    /\ cell' = [cell EXCEPT !.guard = t]
    /\ Goto(t, "pc_check")
    /\ CellFrame
    /\ UNCHANGED <<pools, clones, loc, ret>>

\* line 28: if guard.is_none()
PC_Check(t) ==
    /\ pc[t] = "pc_check"
    /\ Goto(t, IF cell.pool = 0 THEN "pc_init" ELSE "pc_clone")
    /\ CellFrame
    /\ UNCHANGED <<pools, clones, loc, ret, cell>>

\* line 29: *guard = Some(Pool::new()); the assignment drops the value it
\* replaces, which is None whenever the lock is held across lines 28-29
PC_Init(t) ==
    /\ pc[t] = "pc_init"
    /\ Len(pools) < MaxPools
    /\ pools' = Append(IF cell.pool # 0 THEN dec_ref_count(cell.pool) ELSE pools,
                       NewPoolInner)
    /\ clones' = Append(clones, 0)
    /\ cell' = [cell EXCEPT !.pool = Len(pools) + 1]
    /\ Goto(t, "pc_clone")
    /\ CellFrame
    /\ UNCHANGED <<loc, ret>>

\* line 32: guard.as_ref().unwrap().clone(); the guard is dropped on return
PC_Clone(t) ==
    /\ pc[t] = "pc_clone"
    /\ pools' = inc_ref_count(cell.pool)
    /\ clones' = [clones EXCEPT ![cell.pool] = @ + 1]
    /\ cell' = [cell EXCEPT !.guard = 0]
    /\ ret' = [ret EXCEPT ![t] = [NoRet EXCEPT !.op = "pool", !.pool = cell.pool]]
    /\ SetLoc(t, NoLoc)
    /\ Goto(t, "idle")
    /\ CellFrame

\* the blocks a deep_drop walk visits from a head pointer, following next
RECURSIVE Chain(_, _, _)
Chain(blocks, ptr, fuel) ==
    IF ptr = Null \/ fuel = 0 THEN << >>
    ELSE <<ptr>> \o Chain(blocks, blocks[ptr].next, fuel - 1)

\* how often a walk deallocates block b
Visits(chain, b) == Cardinality({k \in DOMAIN chain : chain[k] = b})

\* a walk that deallocates the first page and does not follow next
PageDeepDrop_FirstOnly(ptr) ==
    [b \in DOMAIN pages |->
        [pages[b] EXCEPT !.freed = @ + IF b = ptr THEN 1 ELSE 0]]

\* small.rs deep_drop: every page of the list is deallocated
PageDeepDrop(ptr) ==
    LET chain == Chain(pages, ptr, Len(pages))
    IN  [b \in DOMAIN pages |->
            [pages[b] EXCEPT !.freed = @ + Visits(chain, b)]]

\* large.rs deep_drop over every shard's list
LargeDeepDrop(heads) ==
    LET chain(k) == Chain(larges, heads[k], Len(larges))
    IN  [b \in DOMAIN larges |->
            [larges[b] EXCEPT !.freed = @ +
                Cardinality({k \in DOMAIN heads : Visits(chain(k), b) > 0})]]

\* deep_drop_pool: the large entries, the pages, then the inner object
deep_drop_pool(t) ==
    /\ pc[t] = "reclaim"
    /\ LET p == loc[t].pool
       IN  /\ larges' = LargeDeepDrop(pools[p].first_large_string)
           /\ pages' = PageDeepDrop(pools[p].first_page)
           /\ pools' = [pools EXCEPT ![p].freed = @ + 1]
    /\ SetLoc(t, NoLoc)
    /\ Goto(t, "idle")
    /\ UNCHANGED <<clones, handles, ret, env, called, returned>>

(***************************************************************************)
(* The specification.                                                      *)
(***************************************************************************)
\* the state after a Pool::new() for each pool of ps, for a program that
\* passes the strings d and starts at most b operations
InitOn(ps, d, b, tgs) ==
    /\ pools = ps
    /\ clones = [p \in DOMAIN ps |-> 1]
    /\ pages = << >>
    /\ larges = << >>
    /\ handles = EmptyBag
    /\ pc = [t \in Threads |-> "idle"]
    /\ loc = [t \in Threads |-> NoLoc]
    /\ ret = [t \in Threads |-> NoRet]
    /\ budget = b
    /\ acted = {}
    /\ dict = d
    /\ called = {}
    /\ returned = {}
    /\ cell = NoCell
    /\ target \in tgs

\* the program built for a 64-bit target
InitOf(ps, d, b) == InitOn(ps, d, b, {Target64})

InitWith(d, b) == InitOf(<<NewPoolInner>>, d, b)

\* two threads on one pool
Init == InitWith({"", "a", "X", "L1", "L2"}, MaxOps)

SmallStep(t) ==
    \/ IS_Load(t) \/ TI_Read(t) \/ TI_Cas1(t) \/ TI_Copy(t) \/ TI_Cas2(t)
    \/ IS_Alloc(t) \/ IS_Append(t) \/ IS_Inc(t)
    \/ FS_Load(t) \/ PF_Read(t) \/ FS_Inc(t)

\* the steps of the large tier a thread running alone takes
LargeSeqStep(t) ==
    \/ FL_Load(t) \/ FL_Inc(t)
    \/ IL_Load(t) \/ IL_Alloc(t) \/ IL_Cas(t) \/ IL_Inc(t)

LargeStep(t) == LargeSeqStep(t) \/ IL_Dealloc(t)

ProgramStep(t) ==
    \/ \E p \in PoolIds, s \in dict : CallIntern(t, p, s)
    \/ \E p \in PoolIds, s \in dict : CallFind(t, p, s)
    \/ \E p \in PoolIds : PoolClone(t, p)
    \/ \E p \in PoolIds : PoolDrop(t, p)
    \/ \E h \in BagToSet(handles) : HandleClone(t, h)
    \/ \E h \in BagToSet(handles) : HandleDrop(t, h)
    \/ deep_drop_pool(t)

Next == \E t \in Threads : ProgramStep(t) \/ SmallStep(t) \/ LargeStep(t)

Spec == Init /\ [][Next]_vars

\* the steps of thread t inside a call of intern or find
CallStep(t) == SmallStep(t) \/ LargeStep(t)

\* fair scheduling: a thread inside a call is not halted for ever
InitFair == InitWith({"a", "X", "L1", "L2"}, MaxFairOps)

FairSpec == InitFair /\ [][Next]_vars /\ \A t \in Threads : WF_vars(CallStep(t))

\* two threads on the pages of one pool, with two strings of one length, one
\* of them the NUL byte
InitRace == InitWith({"a", "N"}, MaxOps)

NextRace == \E t \in Threads : ProgramStep(t) \/ SmallStep(t)

SpecRace == InitRace /\ [][NextRace]_vars

\* single-threaded use: every operation is thread 1's, on up to MaxPools pools
InitSeq == InitWith({"", "a", "X", "Y", "L1", "L2", "L3"}, MaxSeqOps)

NextSeq == PoolNew(1) \/ ProgramStep(1) \/ SmallStep(1) \/ LargeSeqStep(1)

SpecSeq == InitSeq /\ [][NextSeq]_vars

(***************************************************************************)
(* The walks of lib.rs.  find_1_127 and intern_1_127 walk a page in a      *)
(* loop without a test of i against PAGE_CAPACITY; their other steps are   *)
(* the steps of small.rs.  An index past the entries array panics.         *)
(***************************************************************************)
\* intern_1_127, lines 144-185: one turn of the inner loop up to its CAS
intern_1_127_Read(t) ==
    /\ pc[t] = "ti_read"
    /\ IF loc[t].i >= PAGE_CAPACITY
       THEN \* page.entries[i]: index out of bounds
            /\ Goto(t, "panic")
            /\ UNCHANGED loc
       ELSE LET l == loc[t]
                slice == Bytes(l.string)
                lr == read_atomic_slot_len(EntryAt(l.page, l.i))
                len == lr[1]
                ready == lr[2]
                s == l.i + 1
            IN  IF ready /\ len = Len(slice)
                THEN IF EntrySlice(l.page, s, s + len) = slice
                     THEN /\ SetLoc(t, [l EXCEPT !.val = SlotAddr(l.page, l.i)])
                          /\ Goto(t, "is_inc")
                     ELSE /\ SetLoc(t, [l EXCEPT !.i = s + len])
                          /\ UNCHANGED pc
                ELSE IF ready /\ len = 0
                THEN IF SlotFits(s, Len(slice))
                     THEN /\ Goto(t, "ti_cas1")
                          /\ UNCHANGED loc
                     ELSE \* to next page
                          /\ SetLoc(t, [l EXCEPT !.ref = l.page])
                          /\ Goto(t, "is_load")
                ELSE /\ SetLoc(t, [l EXCEPT !.i = s + len])
                     /\ UNCHANGED pc
    /\ UNCHANGED <<pools, pages, larges, clones, handles, ret, env, called, returned>>

\* find_1_127, lines 88-105: one turn of the inner loop
find_1_127_Read(t) ==
    /\ pc[t] = "pf_read"
    /\ IF loc[t].i >= PAGE_CAPACITY
       THEN \* page.entries[i]: index out of bounds
            /\ Goto(t, "panic")
            /\ UNCHANGED loc
       ELSE LET l == loc[t]
                slice == Bytes(l.string)
                lr == read_atomic_slot_len(EntryAt(l.page, l.i))
                len == lr[1]
                ready == lr[2]
                i == l.i + 1
            IN  IF ready /\ len = Len(slice)
                THEN IF EntrySlice(l.page, i, i + len) = slice
                     THEN /\ SetLoc(t, [l EXCEPT !.val = SlotAddr(l.page, i - 1)])
                          /\ Goto(t, "fs_inc")
                     ELSE /\ SetLoc(t, [l EXCEPT !.i = i + len])
                          /\ UNCHANGED pc
                ELSE IF ready /\ len = 0
                THEN /\ SetLoc(t, [l EXCEPT !.ref = l.page])
                     /\ Goto(t, "fs_load")
                ELSE /\ SetLoc(t, [l EXCEPT !.i = i + len])
                     /\ UNCHANGED pc
    /\ UNCHANGED <<pools, pages, larges, clones, handles, ret, env, called, returned>>

\* the steps of the small tier of lib.rs
LibSmallStep(t) ==
    \/ IS_Load(t) \/ intern_1_127_Read(t) \/ TI_Cas1(t) \/ TI_Copy(t) \/ TI_Cas2(t)
    \/ IS_Alloc(t) \/ IS_Append(t) \/ IS_Inc(t)
    \/ FS_Load(t) \/ find_1_127_Read(t) \/ FS_Inc(t)

\* single-threaded use of the pages alone, with the strings that fill a page
InitSmall == InitWith({"a", "X", "Y"}, MaxSeqOps)

NextSmall == ProgramStep(1) \/ SmallStep(1)

SpecSmall == InitSmall /\ [][NextSmall]_vars

\* the same use of the pages with the walks of lib.rs
NextLib == ProgramStep(1) \/ LibSmallStep(1)

SpecLib == InitSmall /\ [][NextLib]_vars

\* one program run on a Pool<P> and on a Pool<1>: each call of intern or find
\* is made on pool 1 by thread 1, then repeated on pool 2 by thread 2
InitShard ==
    InitOf(<<NewPoolInnerOf(P), NewPoolInnerOf(1)>>,
           {"", "a", "L1", "L2", "L3", "L4"}, MaxShardOps)

ShardCall ==
    /\ \A t \in Threads : Idle(t)
    /\ budget % 2 = 0
    /\ \E s \in dict : CallIntern(1, 1, s) \/ CallFind(1, 1, s)

ShardRepeat ==
    /\ \A t \in Threads : Idle(t)
    /\ budget % 2 = 1
    /\ \/ ret[1].op = "intern" /\ CallIntern(2, 2, ret[1].string)
       \/ ret[1].op = "find" /\ CallFind(2, 2, ret[1].string)

NextShard ==
    \/ ShardCall
    \/ ShardRepeat
    \/ \E t \in Threads : SmallStep(t) \/ LargeSeqStep(t)

SpecShard == InitShard /\ [][NextShard]_vars

\* two threads that take their pool from one PoolCell, on which swap is
\* never called
InitCell == InitOf(<< >>, {"a", "L1"}, MaxCellOps)

CellStep(t) ==
    \/ CellPool(t) \/ PC_Lock(t) \/ PC_Check(t) \/ PC_Init(t) \/ PC_Clone(t)

NextCell ==
    \E t \in Threads :
        \/ CellStep(t)
        \/ \E p \in PoolIds, s \in dict : CallIntern(t, p, s)
        \/ \E p \in PoolIds, s \in dict : CallFind(t, p, s)
        \/ \E p \in PoolIds : PoolDrop(t, p)
        \/ \E h \in BagToSet(handles) : HandleDrop(t, h)
        \/ SmallStep(t)
        \/ LargeStep(t)

SpecCell == InitCell /\ [][NextCell]_vars

(***************************************************************************)
(* Properties.                                                             *)
(***************************************************************************)
Quiescent == \A t \in Threads : Idle(t)

LiveHandles == BagToSet(handles)

\* the number of live non-empty handles that belong to pool p
HandlesOf(p) ==
    BagCardinality([h \in {g \in LiveHandles : pool_ptr(g.len_ptr) = p}
                       |-> handles[h]])

\* a call of op has returned to thread t
Returned(t, op) == ret[t].op = op

\* a call has returned the handle of a stored string to thread t
ReturnedSome(t, op) == Returned(t, op) /\ ret[t].val \notin {None, Null}

\* C1: content fidelity - the handle an intern of a non-empty string s
\* returns dereferences to s, whichever tier stores it
C1_ContentFidelity ==
    \A t \in Threads :
        Returned(t, "intern") /\ ret[t].string # ""
            => ret[t].val # None /\ ret[t].text = ret[t].string

\* content fidelity holds for the small tier, where slots are compared by
\* their bytes
SmallContentFidelity ==
    \A t \in Threads :
        Returned(t, "intern") /\ Tier(StrLen(ret[t].string)) = "small"
            => ret[t].val # None /\ ret[t].text = ret[t].string

\* in the large tier an intern returns a string with the hash of its argument
LargeHashFidelity ==
    \A t \in Threads :
        Returned(t, "intern") /\ Tier(StrLen(ret[t].string)) = "large"
            => /\ ret[t].val # None
               /\ hash_str(ret[t].text) = hash_str(ret[t].string)

\* C2: once an intern of s has returned, a later find of s returns a handle,
\* and the handle dereferences to s
C2_FindAfterIntern ==
    \A t \in Threads :
        Returned(t, "find") /\ ret[t].seen /\ ret[t].string # ""
            => ret[t].val # None /\ ret[t].text = ret[t].string

\* a find after an intern does return a handle; only its content can differ
FindAfterInternSome ==
    \A t \in Threads :
        Returned(t, "find") /\ ret[t].seen => ret[t].val # None

\* C3: a find of a non-empty string that was never passed to intern on this
\* pool returns None
C3_FindNeverInterned ==
    \A t \in Threads :
        Returned(t, "find") /\ StrLen(ret[t].string) >= 1
                            /\ <<ret[t].pool, ret[t].string>> \notin called
            => ret[t].val = None

\* in the small tier a find of a string never passed to intern returns None
SmallFindNeverInterned ==
    \A t \in Threads :
        Returned(t, "find") /\ Tier(StrLen(ret[t].string)) = "small"
                            /\ <<ret[t].pool, ret[t].string>> \notin called
            => ret[t].val = None

\* the handles intern returned for strings of pool p that are still alive
InternedIn(p) ==
    {h \in LiveHandles : h.by = "intern" /\ h.len_ptr # Null
                         /\ pool_ptr(h.len_ptr) = p}

\* C6: two handles interned in one pool are equal (PartialEq) exactly when
\* the strings passed to intern are equal
C6_EqualityIffSameString ==
    \A p \in PoolIds : \A h1, h2 \in InternedIn(p) :
        PoolStr_eq(h1.len_ptr, h2.len_ptr) <=> h1.str = h2.str

\* equality of handles is equality of the strings they dereference to
EqualityIffSameText ==
    \A p \in PoolIds : \A h1, h2 \in InternedIn(p) :
        Tier(StrLen(h1.str)) = "small" /\ Tier(StrLen(h2.str)) = "small"
            => (PoolStr_eq(h1.len_ptr, h2.len_ptr) <=> h1.str = h2.str)

\* the local variables of a call, without the record of the copies made by
\* other threads while it runs
Locals(l) == [l EXCEPT !.racy = {}]

\* the step is one of thread t inside find: the call, a turn of a walk or
\* the return
TookFindStep(t) ==
    \/ loc[t].op = "find" /\ (pc'[t] # pc[t] \/ Locals(loc'[t]) # Locals(loc[t]))
    \/ loc[t].op # "find" /\ loc'[t].op = "find"
    \/ ret'[t] # ret[t] /\ ret'[t].op = "find"

\* the step returns a non-empty handle from find to thread t
FindReturnsSome(t) ==
    ret'[t] # ret[t] /\ ret'[t].op = "find" /\ ret'[t].val \notin {None, Null}

\* what a step of find may change of the pool: nothing but the count, by one
\* when it returns a non-empty handle
FindFrame(t) ==
    /\ pages' = pages
    /\ larges' = larges
    /\ DOMAIN pools' = DOMAIN pools
    /\ \A p \in PoolIds :
          pools'[p] = [pools[p] EXCEPT !.ref_count =
                          @ + IF FindReturnsSome(t) /\ ret'[t].pool = p
                              THEN 1 ELSE 0]

\* C4: find changes no slot, page or large entry and appends nothing; the
\* reference count goes up by exactly 1 when find returns a non-empty handle
\* and is unchanged when it returns None or the empty handle
C4_FindFrame == [][\A t \in Threads : TookFindStep(t) => FindFrame(t)]_vars

C4_Witness ==
    \E t \in Threads :
        /\ ReturnedSome(t, "find")
        /\ pools[ret[t].pool].ref_count >= 2

\* C5: with one thread, an intern of s after an earlier intern of s on the
\* same pool returns a handle equal to the first one, the very pointer for a
\* small string, and reserves no slot and allocates no entry or page
C5_Dedup ==
    \A t \in Threads :
        Returned(t, "intern") /\ ret[t].seen =>
            /\ ret[t].val # None
            /\ PoolStr_eq(ret[t].val, FirstHandle(ret[t].pool, ret[t].string))
            /\ Tier(StrLen(ret[t].string)) = "small"
                   => ret[t].val = FirstHandle(ret[t].pool, ret[t].string)
            /\ ret[t].made = {}

C5_Witness ==
    /\ Returned(1, "intern") /\ ret[1].seen /\ ret[1].string = "X"
    /\ ret[1].val = FirstHandle(ret[1].pool, "X")
    /\ HasReturned(ret[1].pool, "L1")

\* the live empty handles
EmptyCount ==
    BagCardinality([h \in {g \in LiveHandles : g.len_ptr = Null} |-> handles[h]])

\* the step makes or drops an empty handle: an intern or a find of "", a
\* clone or a drop of an empty handle
TookEmptyStep ==
    \/ EmptyCount' # EmptyCount
    \/ \E t \in Threads : /\ ret'[t] # ret[t]
                          /\ ret'[t].op \in {"intern", "find"}
                          /\ ret'[t].string = ""

\* intern and find of "" return the null handle, which dereferences to ""
\* and has no pool
EmptyIsNull ==
    /\ \A t \in Threads :
          ret[t].op \in {"intern", "find"} /\ ret[t].string = ""
              => ret[t].val = Null /\ ret[t].text = ""
    /\ \A h \in LiveHandles : (h.str = "") <=> (h.len_ptr = Null)
    /\ \A h \in LiveHandles :
          h.len_ptr = Null => pool_ptr(h.len_ptr) = None /\ Deref(h.len_ptr) = << >>

\* C7: intern("") and find("") return the empty handle without a change of
\* the reference count, and a clone or a drop of an empty handle changes
\* nothing of any pool
C7_EmptySentinel ==
    /\ []EmptyIsNull
    /\ [][TookEmptyStep => pools' = pools /\ pages' = pages /\ larges' = larges]_vars

C7_Witness ==
    /\ \E h \in LiveHandles : h.len_ptr = Null /\ h.by = "find" /\ handles[h] >= 2
    /\ \E h \in LiveHandles : h.len_ptr = Null /\ h.by = "intern"
    /\ pools[1].ref_count = 1

\* C8: when no operation is running the reference count of a pool is the
\* number of its live Pool clones plus the number of its live non-empty
\* handles, and it is not zero while one of them exists
C8_RefCount ==
    \A p \in PoolIds :
        /\ Quiescent => pools[p].ref_count = clones[p] + HandlesOf(p)
        /\ clones[p] + HandlesOf(p) > 0
               => pools[p].ref_count > 0 /\ pools[p].freed = 0

C8_Witness ==
    /\ Quiescent
    /\ clones[1] = 2
    /\ HandlesOf(1) = 2
    /\ pools[1].ref_count = 4

\* the threads inside deep_drop_pool for pool p
Reclaiming(p) == {t \in Threads : pc[t] = "reclaim" /\ loc[t].pool = p}

\* C9: a pool is reclaimed once, by the drop whose decrement returned 1,
\* never while a Pool clone or a non-empty handle of it lives; a handle kept
\* after the last Pool clone is dropped still dereferences to its string
C9_ReclaimOnce ==
    /\ \A p \in PoolIds :
          /\ pools[p].freed + Cardinality(Reclaiming(p)) <= 1
          /\ pools[p].freed + Cardinality(Reclaiming(p)) = 1
                 <=> pools[p].last # "none"
          /\ pools[p].last # "none"
                 => /\ pools[p].ref_count = 0
                    /\ clones[p] = 0
                    /\ HandlesOf(p) = 0
    /\ \A h \in LiveHandles :
          h.len_ptr # Null
              => /\ ~Freed(h.len_ptr)
                 /\ pool_ptr(h.len_ptr) \in PoolIds
                 /\ pools[pool_ptr(h.len_ptr)].freed = 0
                 /\ Deref(h.len_ptr) = Bytes(h.text)

C9_Witness ==
    /\ pools[1].freed = 1
    /\ pools[1].last = "PoolStr"
    /\ Len(pages) >= 1

\* a handle outlives every Pool clone of its pool
HandleOutlivesPool ==
    \E h \in LiveHandles :
        /\ h.len_ptr # Null
        /\ clones[pool_ptr(h.len_ptr)] = 0
        /\ Deref(h.len_ptr) = Bytes(h.str)

\* C10: once every Pool clone and every handle of a pool is dropped, each
\* page, each large entry and the inner object of the pool has been
\* deallocated, and nothing is deallocated twice
C10_AllFreedOnce ==
    /\ \A b \in DOMAIN pages : pages[b].freed <= 1
    /\ \A b \in DOMAIN larges : larges[b].freed <= 1
    /\ \A p \in PoolIds :
          clones[p] = 0 /\ HandlesOf(p) = 0 /\ Quiescent
              => /\ pools[p].freed = 1
                 /\ \A b \in DOMAIN pages : pages[b].pool = p => pages[b].freed = 1
                 /\ \A b \in DOMAIN larges : larges[b].pool = p => larges[b].freed = 1

C10_Witness ==
    /\ Quiescent
    /\ pools[1].freed = 1
    /\ \E b \in DOMAIN pages : pages[b].next # Null /\ pages[pages[b].next].freed = 1
    /\ \E b \in DOMAIN larges : larges[b].freed = 1

\* the assert of try_intern never fails
NoPanic == \A t \in Threads : pc[t] # "panic"

(***************************************************************************)
(* The slots of a page and the entries of a list, as a walk meets them.    *)
(***************************************************************************)
\* the offsets of the length bytes a walk of a page passes: from 0, each
\* slot skipped by its length, up to the first UNUSED byte or the capacity
RECURSIVE SlotWalk(_, _)
SlotWalk(entries, i) ==
    IF i >= PAGE_CAPACITY \/ entries[i + 1] = 0 THEN {}
    ELSE {i} \cup SlotWalk(entries, i + 1 + BitAnd(entries[i + 1], LEN_MASK))

Slots(p) == SlotWalk(pages[p].entries, 0)

SlotReady(p, i) == read_atomic_slot_len(EntryAt(p, i))[2]

SlotLen(p, i) == read_atomic_slot_len(EntryAt(p, i))[1]

\* the string bytes of the slot at offset i
SlotText(p, i) == EntrySlice(p, i + 1, i + 1 + SlotLen(p, i))

\* the large entries linked in the lists of pool p
LinkedLarges(p) ==
    UNION {{Chain(larges, pools[p].first_large_string[k], Len(larges))[j] :
               j \in 1..Len(Chain(larges, pools[p].first_large_string[k], Len(larges)))} :
           k \in 1..ShardCount(p)}

\* another large string of the program has the hash of s
Collides(s) ==
    /\ Tier(StrLen(s)) = "large"
    /\ \E n \in dict : n # s /\ Tier(StrLen(n)) = "large" /\ hash_str(n) = hash_str(s)

\* what the pool stores is a string of the program
StoredInDict ==
    /\ \A p \in DOMAIN pages : \A i \in Slots(p) :
          SlotReady(p, i) => \E n \in dict : Bytes(n) = SlotText(p, i)
    /\ \A p \in PoolIds : \A e \in LinkedLarges(p) :
          \E n \in dict : Bytes(n) = larges[e].bytes

\* C11: under any interleaving of the threads interning strings of a fixed
\* dictionary on a shared pool, every handle intern returns dereferences to
\* the string passed to that call, and every string in a READY slot or a
\* linked large entry is a string of the dictionary
C11_CrossThread ==
    /\ \A t \in Threads :
          Returned(t, "intern") /\ ret[t].val # Null => ret[t].text = ret[t].string
    /\ \A h \in LiveHandles :
          h.by = "intern" /\ h.len_ptr # Null => Deref(h.len_ptr) = Bytes(h.str)
    /\ StoredInDict

\* the same for the strings whose hash no other string of the dictionary has
CrossThreadUniqueHash ==
    /\ \A h \in LiveHandles :
          h.by = "intern" /\ h.len_ptr # Null /\ ~Collides(h.str)
              => Deref(h.len_ptr) = Bytes(h.str)
    /\ StoredInDict

\* two READY slots of the pages hold the same string
DuplicateSlots ==
    \E p, q \in DOMAIN pages : \E i \in Slots(p), j \in Slots(q) :
        /\ <<p, i>> # <<q, j>>
        /\ SlotReady(p, i) /\ SlotReady(q, j)
        /\ SlotText(p, i) = SlotText(q, j)

C12_Witness ==
    /\ DuplicateSlots
    /\ \E t \in Threads :
          /\ Returned(t, "intern") /\ ret[t].seen /\ ret[t].made = {}
          /\ Tier(StrLen(ret[t].string)) = "small"

\* where thread t is: in the walk of the pages or of the large entries
InSmallTier(t) ==
    pc[t] \in {"is_load", "ti_read", "ti_cas1", "ti_copy", "ti_cas2", "is_alloc",
               "is_append", "is_inc", "fs_load", "pf_read", "fs_inc"}

InLargeTier(t) ==
    pc[t] \in {"fl_load", "fl_inc", "il_load", "il_dealloc", "il_alloc", "il_cas",
               "il_inc"}

\* C13: find and intern dispatch on the byte length alone: length 0 gives
\* the empty handle, a length in 1..=126 uses only the pages and gives a
\* handle into a page slot, a length of 127 or more uses only the large
\* entries and gives a handle of a large entry
C13_Dispatch ==
    /\ \A t \in Threads :
          /\ InSmallTier(t) => StrLen(loc[t].string) \in 1..126
          /\ InLargeTier(t) => StrLen(loc[t].string) >= 127
          /\ InSmallTier(t) => loc[t].made \subseteq {"slot", "page"}
          /\ InLargeTier(t) => loc[t].made \subseteq {"large", "link"}
    /\ \A t \in Threads :
          ret[t].op \in {"intern", "find"} /\ ret[t].val # None =>
              /\ StrLen(ret[t].string) = 0 <=> ret[t].val = Null
              /\ StrLen(ret[t].string) \in 1..126 <=> IsPageAddr(ret[t].val)
              /\ StrLen(ret[t].string) >= 127 <=> IsLargeAddr(ret[t].val)
              /\ StrLen(ret[t].string) \in 1..126 => ret[t].made \subseteq {"slot", "page"}
              /\ StrLen(ret[t].string) >= 127 => ret[t].made \subseteq {"large", "link"}
    /\ \A p \in DOMAIN pages : \A i \in Slots(p) : SlotLen(p, i) \in 1..126
    /\ \A e \in DOMAIN larges : larges[e].len >= 127

C13_Witness ==
    /\ \E h \in LiveHandles :
          /\ StrLen(h.str) = 126 /\ h.by = "intern"
          /\ IsPageAddr(h.len_ptr) /\ ReadByte(h.len_ptr) = 126
    /\ \E h \in LiveHandles :
          /\ StrLen(h.str) = 127 /\ h.by = "intern"
          /\ IsLargeAddr(h.len_ptr) /\ ReadByte(h.len_ptr) = 0
    /\ \E t \in Threads : Returned(t, "find") /\ ret[t].val = Null

\* the slots of page p fill its capacity to the last byte
FullPage(p) == \E i \in Slots(p) : i + 1 + SlotLen(p, i) = PAGE_CAPACITY

\* thread t is at an access to the length byte entries[i] of a page
AtLenByte(t) == pc[t] \in {"ti_read", "pf_read", "ti_cas1", "ti_copy", "ti_cas2"}

\* thread t has found room for its string at entries[i] and reserves, fills
\* or publishes the slot
AtReservedSlot(t) == pc[t] \in {"ti_cas1", "ti_copy", "ti_cas2"}

\* C14: with the walk of small.rs no access and no slot goes past the
\* capacity of a page, also when the slots fill the page to its last byte:
\* a further intern then reserves in another page, every string interned
\* before still dereferences to its original, and a find of the new string
\* returns Some
C14_PageFull ==
    /\ \A p \in DOMAIN pages :
          /\ Len(pages[p].entries) = PAGE_CAPACITY
          /\ \A i \in Slots(p) : i + 1 + SlotLen(p, i) <= PAGE_CAPACITY
    /\ \A t \in Threads :
          /\ AtLenByte(t) => loc[t].i < PAGE_CAPACITY
          /\ AtReservedSlot(t) =>
                /\ loc[t].i + 1 + StrLen(loc[t].string) <= PAGE_CAPACITY
                /\ pc[t] = "ti_cas1" => ~FullPage(loc[t].page)
    /\ \A h \in LiveHandles :
          Tier(StrLen(h.str)) = "small" => Deref(h.len_ptr) = Bytes(h.str)
    /\ \A t \in Threads :
          Tier(StrLen(ret[t].string)) = "small" /\ ret[t].op \in {"intern", "find"}
               /\ (ret[t].op = "intern" \/ ret[t].seen)
              => /\ IsPageAddr(ret[t].val)
                 /\ ret[t].text = ret[t].string
    /\ NoPanic

C14_Witness ==
    \E p \in DOMAIN pages :
        /\ FullPage(p)
        /\ Returned(1, "find") /\ ret[1].seen /\ ret[1].string = "a"
        /\ IsPageAddr(ret[1].val)
        /\ PageAt(ret[1].val) = pages[p].next
        /\ \E h \in LiveHandles : h.str = "X" /\ PageAt(h.len_ptr) = p
        /\ \E h \in LiveHandles : h.str = "Y" /\ PageAt(h.len_ptr) = p

\* a thread inside a call of intern or find
InCall(t) == InSmallTier(t) \/ InLargeTier(t)

\* C15: every intern and find call terminates: under fair scheduling a
\* thread inside a call eventually returns
C15_Terminates == \A t \in Threads : InCall(t) ~> Idle(t)

\* no call waits for memory the model does not have
AllocNeverBlocked ==
    \A t \in Threads :
        /\ pc[t] = "is_alloc" => Len(pages) < MaxPages
        /\ pc[t] = "il_alloc" => Len(larges) < MaxLarge

\* both threads have returned from interns that raced: one lost the append
\* of its page and chased, one found its large entry appended by the other
\* and deallocated its own
C15_Witness ==
    /\ Quiescent
    /\ \A t \in Threads : Returned(t, "intern")
    /\ \/ \E p \in DOMAIN pages : pages[p].next # Null
       \/ \E e \in DOMAIN larges : larges[e].freed = 1 /\ pools[larges[e].pool].freed = 0

(***************************************************************************)
(* Sharding (SpecShard): a pool of P shards against a pool of one.         *)
(***************************************************************************)
\* the live non-empty handles of pool p
ShardHandles(p) == {h \in LiveHandles : pool_ptr(h.len_ptr) = p}

\* what the program observes of its handles on pool p: for the handle each
\* call returned, the text it dereferences to and the handles it equals
Observed(p) ==
    [texts |-> {<<h.by, h.str, NameOf(Deref(h.len_ptr))>> : h \in ShardHandles(p)},
     equal |-> {<<x[1].by, x[1].str, x[2].by, x[2].str>> :
                  x \in {y \in ShardHandles(p) \X ShardHandles(p) :
                            PoolStr_eq(y[1].len_ptr, y[2].len_ptr)}}]

\* every call made on pool 1 has been repeated on pool 2
Repeated ==
    /\ \A t \in Threads : Idle(t)
    /\ budget % 2 = 0
    /\ ret[1].op # "none"

\* every entry is linked in the list of the shard of its hash, the one a
\* find of its string walks
LinkedInOwnShard ==
    \A p \in PoolIds : \A k \in 1..ShardCount(p) :
        LET list == Chain(larges, pools[p].first_large_string[k], Len(larges))
        IN  \A j \in 1..Len(list) :
                index_from_hash(ShardCount(p), larges[list[j]].hash) + 1 = k

\* C16: with P > 1 shards find and intern of a string select one shard,
\* hash & (P - 1), and a sequence of intern, find and deref calls gives the
\* program the results (Some or None, the text, the equal handles) that the
\* same sequence gives on a pool of one shard
C16_ShardEquivalence ==
    /\ LinkedInOwnShard
    /\ Repeated =>
        /\ ret[2].op = ret[1].op /\ ret[2].string = ret[1].string
        /\ (ret[1].val = None) = (ret[2].val = None)
        /\ (ret[1].val = Null) = (ret[2].val = Null)
        /\ ret[1].text = ret[2].text
        /\ Observed(1) = Observed(2)

\* a find on the pool of P > 1 shards returned the handle of a string of the
\* second shard while the first shard holds an entry too, and the call was
\* repeated on the pool of one shard
C16_Witness ==
    /\ Repeated
    /\ ShardCount(1) > 1 /\ ShardCount(2) = 1
    /\ ret[1].op = "find" /\ ret[1].val \notin {None, Null}
    /\ Tier(StrLen(ret[1].string)) = "large"
    /\ index_from_hash(ShardCount(1), hash_str(ret[1].string)) = 1
    /\ pools[1].first_large_string[1] # Null
    /\ larges[pools[2].first_large_string[1]].next # Null

(***************************************************************************)
(* PoolCell (SpecCell).                                                    *)
(***************************************************************************)
\* C17: on a PoolCell on which swap is never called, concurrent pool() calls
\* create one pool: every call returns a clone of the inner pool the cell
\* holds, a string interned through one clone is found through another,
\* and the cell keeps one counted reference of its own, so the pool is not
\* reclaimed when the program has dropped every clone and handle
C17_OnePool ==
    /\ Len(pools) <= 1
    /\ \A t \in Threads :
        /\ ret[t].op = "pool" => ret[t].pool = cell.pool /\ cell.pool # 0
        /\ pc[t] = "pc_init" => cell.pool = 0
        /\ pc[t] # "reclaim"
        /\ Returned(t, "find") /\ ret[t].seen => ret[t].val # None
    /\ cell.pool # 0 =>
        /\ pools[cell.pool].freed = 0
        /\ pools[cell.pool].ref_count >= 1 + clones[cell.pool] + HandlesOf(cell.pool)
        /\ Quiescent =>
             pools[cell.pool].ref_count = 1 + clones[cell.pool] + HandlesOf(cell.pool)

\* two calls of pool() have returned and their two clones are live; a
\* string interned through a clone was found, thread 2 made the last call
\* of pool(), and the count is the cell's reference, the two clones and the
\* handles
C17_Witness ==
    /\ Quiescent
    /\ cell.pool = 1 /\ cell.guard = 0
    /\ ret[1].op = "find" /\ ret[1].seen /\ ret[1].val \notin {None, Null}
    /\ ret[2].op = "pool" /\ ret[2].pool = 1
    /\ clones[1] = 2
    /\ pools[1].ref_count = 3 + HandlesOf(1)

\* the program has dropped every clone and handle of the pool it took from
\* the cell, and the pool lives on through the cell's reference
CellHoldsLastRef ==
    /\ Quiescent
    /\ cell.pool = 1
    /\ pools[1].first_page # Null
    /\ clones[1] = 0 /\ HandlesOf(1) = 0
    /\ pools[1].ref_count = 1 /\ pools[1].freed = 0

(***************************************************************************)
(* The life of a slot.                                                     *)
(***************************************************************************)
\* the offset at which a walk of a page ends: the first UNUSED length byte,
\* or the capacity
RECURSIVE WalkEnd(_, _)
WalkEnd(entries, i) ==
    IF i >= PAGE_CAPACITY \/ entries[i + 1] = 0 THEN i
    ELSE WalkEnd(entries, i + 1 + BitAnd(entries[i + 1], LEN_MASK))

\* the offsets of the length bytes of page p: of its slots and of the UNUSED
\* byte after them
LenBytes(p) ==
    Slots(p) \cup {i \in {WalkEnd(pages[p].entries, 0)} : i < PAGE_CAPACITY}

\* thread t has reserved the slot at offset i of page p and not published it
Reserver(t, p, i) ==
    pc[t] \in {"ti_copy", "ti_cas2"} /\ loc[t].page = p /\ loc[t].i = i

\* one step of the length byte at offset i of page p
SlotStep(p, i) ==
    LET b == pages[p].entries[i + 1]
        c == pages'[p].entries[i + 1]
    IN  /\ b = 0 => c = 0 \/ (BitAnd(c, NOT_READY) # 0 /\ BitAnd(c, LEN_MASK) \in 1..126)
        /\ BitAnd(b, NOT_READY) # 0 =>
              \/ c = b
              \/ /\ c = BitAnd(b, LEN_MASK)
                 /\ \E t \in Threads : Reserver(t, p, i) /\ pc'[t] = "is_inc"
        /\ BitAnd(b, NOT_READY) # 0 =>
              \/ \E t \in Threads : Reserver(t, p, i) /\ pc'[t] # pc[t]
              \/ SubSeq(pages'[p].entries, i + 1, i + 1 + BitAnd(b, LEN_MASK))
                     = SubSeq(pages[p].entries, i + 1, i + 1 + BitAnd(b, LEN_MASK))
        /\ b \in 1..126 =>
              SubSeq(pages'[p].entries, i + 1, i + 1 + b)
                  = SubSeq(pages[p].entries, i + 1, i + 1 + b)

\* C18: a slot's length byte goes UNUSED (0x00) -> WRITING (0x80|len) ->
\* READY (len) with one len in 1..=126 and no other way; a WRITING byte is
\* changed by the thread that reserved the slot alone, so the asserted second
\* CAS succeeds; a READY length byte and its string bytes never change
C18_SlotLife ==
    /\ []NoPanic
    /\ [][\A p \in DOMAIN pages : \A i \in LenBytes(p) : SlotStep(p, i)]_vars

\* a slot is WRITING, its bytes copied and its second CAS due, while the other
\* thread is about to fail its first CAS on the same length byte, and the
\* page holds a READY slot before it
C18_Witness ==
    \E t, u \in Threads : \E p \in DOMAIN pages : \E i \in Slots(p) :
        /\ pc[t] = "ti_cas2" /\ Reserver(t, p, i)
        /\ pc[u] = "ti_cas1" /\ loc[u].page = p /\ loc[u].i = i
        /\ BitAnd(EntryAt(p, i), NOT_READY) # 0
        /\ \E j \in Slots(p) : j < i /\ SlotReady(p, j)

(***************************************************************************)
(* What a walk reads of a slot.                                            *)
(***************************************************************************)
\* thread t has found the slot it returns
AtMatch(t) == pc[t] \in {"is_inc", "fs_inc"}

\* the protocol of the length byte: a slot that is READY has its bytes
\* copied and no thread is left between its two CASes, and a walk returns a
\* slot whose length byte is READY
ReadyAfterCopy ==
    /\ \A p \in DOMAIN pages : \A i \in Slots(p) :
          SlotReady(p, i) =>
              /\ \A t \in Threads : ~Reserver(t, p, i)
              /\ \E n \in dict : SlotText(p, i) = Bytes(n)
    /\ \A t \in Threads :
          AtMatch(t) => /\ IsPageAddr(loc[t].val)
                        /\ ReadByte(loc[t].val) \in 1..126

\* C19: a walk compares or returns the bytes of a slot only after it read
\* the length byte as READY, when all len bytes of the slot are written: the
\* bytes it compares are the bytes of the slot, and the slot it returns
\* holds the string it looked for; a WRITING slot is skipped by its length
C19_ReadsAfterReady ==
    /\ ReadyAfterCopy
    /\ \A t \in Threads :
          /\ ~loc[t].stale
          /\ AtMatch(t) => Deref(loc[t].val) = Bytes(loc[t].string)

\* a walk has found a slot by bytes that are not the bytes of the slot
StaleMatch ==
    \E t \in Threads : AtMatch(t) /\ loc[t].stale

(***************************************************************************)
(* The byte a handle points at.                                            *)
(***************************************************************************)
\* the pointer is the length byte of a READY slot of a page
SmallPtr(ptr) ==
    /\ IsPageAddr(ptr)
    /\ (ptr % PAGE_SIZE) - PageHeaderSize \in Slots(PageAt(ptr))
    /\ ReadByte(ptr) \in 1..126

\* the pointer is the len_zero byte of a large entry
LargePtr(ptr) ==
    /\ IsLargeAddr(ptr)
    /\ ptr = AnchorAddr(LargeAt(ptr))
    /\ ReadByte(ptr) = 0

\* the pointers the calls handed out: of the live handles and of the last
\* returns, with the string passed to the call
HandedOut ==
    {<<h.len_ptr, h.str>> : h \in LiveHandles} \cup
    {<<ret[t].val, ret[t].string>> :
        t \in {u \in Threads : ret[u].op \in {"intern", "find"} /\ ret[u].val # None}}

\* C20: the byte at the pointer of a non-null handle that intern or find
\* returned is a READY small length in 1..=126, never flagged 0x80, or the 0
\* of a large entry; a handle is null exactly when it stands for the empty
\* string
C20_HandleByte ==
    \A h \in HandedOut :
        /\ h[1] = Null <=> h[2] = ""
        /\ h[1] # Null /\ ~Freed(h[1]) => SmallPtr(h[1]) \/ LargePtr(h[1])
        /\ h[1] # Null /\ ~Freed(h[1]) =>
              (SmallPtr(h[1]) <=> Tier(StrLen(h[2])) = "small")

\* live handles of the three kinds: null, small and large
C20_Witness ==
    /\ \E h \in LiveHandles : h.len_ptr = Null /\ h.str = ""
    /\ \E h \in LiveHandles : SmallPtr(h.len_ptr) /\ Tier(StrLen(h.str)) = "small"
    /\ \E h \in LiveHandles : LargePtr(h.len_ptr) /\ Tier(StrLen(h.str)) = "large"

(***************************************************************************)
(* The list of pages.                                                      *)
(***************************************************************************)
\* the pages reached from first_page of pool p by following next
PageList(p) == Chain(pages, pools[p].first_page, Len(pages))

\* page b is linked in the list of its pool
PageLinked(b) ==
    \E j \in 1..Len(PageList(pages[b].pool)) : PageList(pages[b].pool)[j] = b

\* thread t has allocated page b and is in the loop that appends it
Appending(t, b) == pc[t] = "is_append" /\ loc[t].new = b

\* a step of the append loop of thread t: a CAS that succeeds links the page
\* and the search restarts at the pointer where it had met null, whose page
\* is the first unexplored one; a CAS that fails leaves the page with the
\* thread and moves to the next pointer of the page that was met
AppendStep(t) ==
    pc[t] = "is_append" /\ (pc'[t] # pc[t] \/ Locals(loc'[t]) # Locals(loc[t])) =>
        LET l == loc[t]
            cur == LoadPageRef(l.pool, l.ref)
        IN  IF cur = Null
            THEN /\ pc'[t] = "is_load"
                 /\ pages'[l.new].next = Null
                 /\ \E j \in 1..Len(PageList(l.pool)') : PageList(l.pool)'[j] = l.new
                 /\ loc'[t].ref = l.last
                 /\ IF l.last = 0 THEN pools'[l.pool].first_page # Null
                    ELSE pages'[l.last].next # Null
            ELSE /\ pc'[t] = "is_append"
                 /\ loc'[t].ref = cur
                 /\ loc'[t].new = l.new
                 /\ pages' = pages /\ pools' = pools

\* C21: every allocated page is linked in the list of its pool or is the one
\* page a running intern_small is appending; a failed tail CAS chases the
\* next pointer of the page that won and retries, so the page is linked
\* before the call goes on, and the search resumes from the first page it
\* had not explored
C21_PagesLinked ==
    /\ [](\A b \in DOMAIN pages :
            /\ PageLinked(b) \/ \E t \in Threads : Appending(t, b)
            /\ Cardinality({t \in Threads : Appending(t, b)}) <= 1
            /\ PageLinked(b) => \A t \in Threads : ~Appending(t, b))
    /\ [][\A t \in Threads : AppendStep(t)]_vars

\* a thread has failed its tail CAS, has chased the next pointer of the page
\* another thread appended, and still holds its own page unlinked
C21_Witness ==
    \E t \in Threads :
        /\ pc[t] = "is_append"
        /\ loc[t].ref # loc[t].last
        /\ ~PageLinked(loc[t].new)
        /\ LoadPageRef(loc[t].pool, loc[t].ref) = Null

(***************************************************************************)
(* The block of an intern_large call.                                      *)
(***************************************************************************)
\* thread t is inside intern_large
InInternLarge(t) == pc[t] \in {"il_load", "il_alloc", "il_cas", "il_dealloc", "il_inc"}

\* the allocation of the call of thread t (0 for None)
Allocation(t) == IF InInternLarge(t) THEN loc[t].new ELSE 0

\* thread t holds block b: allocated, not yet linked or deallocated
Holds(t, b) ==
    Allocation(t) = b /\ pc[t] \in {"il_load", "il_cas", "il_dealloc"}

\* how often block b is linked in the lists of its pool
LinkCount(b) ==
    LET heads == pools[larges[b].pool].first_large_string
    IN  Cardinality({<<k, j>> \in (DOMAIN heads) \X (1..Len(larges)) :
            /\ j <= Len(Chain(larges, heads[k], Len(larges)))
            /\ Chain(larges, heads[k], Len(larges))[j] = b})

\* every block is held by the running call that allocated it, or linked
\* once, or deallocated once without ever being linked
BlockStates ==
    \A b \in DOMAIN larges :
        /\ LinkCount(b) <= 1
        /\ larges[b].freed <= 1
        /\ Cardinality({t \in Threads : Holds(t, b)}) <= 1
        /\ (\E t \in Threads : Holds(t, b)) => LinkCount(b) = 0 /\ larges[b].freed = 0
        /\ LinkCount(b) = 0 /\ (\A t \in Threads : ~Holds(t, b)) => larges[b].freed = 1
        /\ LinkCount(b) = 1 => larges[b].freed = pools[larges[b].pool].freed

\* what a call that is about to return does with its block: it returns the
\* block when it linked it, and it has deallocated the block when it returns
\* an entry it met
BlockAtReturn ==
    \A t \in Threads :
        pc[t] = "il_inc" =>
            LET b == loc[t].new
                own == b # 0 /\ loc[t].val = AnchorAddr(b)
            IN  /\ "link" \in loc[t].made <=> own
                /\ own => LinkCount(b) = 1 /\ larges[b].freed = 0
                /\ b # 0 /\ ~own =>
                      /\ larges[b].freed = 1 /\ LinkCount(b) = 0
                      /\ LinkCount(LargeAt(loc[t].val)) = 1
                      /\ HashMatch(LargeAt(loc[t].val), loc[t].hash)
                /\ b = 0 => LinkCount(LargeAt(loc[t].val)) = 1

\* a step of thread t inside intern_large: a block is allocated only by a
\* call that has none, and a tail CAS that fails sends the walk back to the
\* same pointer, which now names the entry another thread appended
BlockStep(t) ==
    /\ InInternLarge(t) /\ Len(larges') > Len(larges) /\ pc'[t] # pc[t] =>
          /\ loc[t].new = 0
          /\ Len(larges') = Len(larges) + 1
          /\ loc'[t].new = Len(larges')
    /\ InInternLarge(t) /\ loc[t].new # 0 /\ InInternLarge(t)' =>
          loc'[t].new = loc[t].new
    /\ pc[t] = "il_cas" /\ pc'[t] = "il_load" =>
          /\ loc'[t] = loc[t]
          /\ larges' = larges /\ pools' = pools
          /\ LoadLargeRef(loc[t].pool, loc[t].hash, loc[t].ref) # Null

InitTarget == InitOn(<<NewPoolInner>>, {"a", "L1", "L3"}, MaxSeqOps, Targets)

SpecTarget == InitTarget /\ [][NextSeq]_vars

\* the pool named by the block an address lies in
OwnerOf(ptr) ==
    IF IsPageAddr(ptr) THEN pages[PageAt(ptr)].pool
    ELSE IF IsLargeAddr(ptr) THEN larges[LargeAt(ptr)].pool
    ELSE None

\* the live non-empty handles whose slot or entry lies in a block of pool p
OwnedHandles(p) ==
    BagCardinality([h \in {g \in LiveHandles :
                              g.len_ptr # Null /\ OwnerOf(g.len_ptr) = p}
                       |-> handles[h]])

\* the address owner recovery computes from a pointer is the base of the
\* page or the header of the entry that holds it
RecoversBlock(ptr) ==
    IF IsPageAddr(ptr)
    THEN BitAnd(ptr, PAGE_ALIGN_MASK) = PageBase(PageAt(ptr))
    ELSE get_large_string(ptr) = LargeBase(LargeAt(ptr))

OwnerRecovery ==
    /\ \A t \in Threads :
          ReturnedSome(t, "intern") \/ ReturnedSome(t, "find")
              => /\ RecoversBlock(ret[t].val)
                 /\ pool_ptr(ret[t].val) = ret[t].pool
    /\ \A h \in LiveHandles :
          h.len_ptr # Null
              => /\ RecoversBlock(h.len_ptr)
                 /\ pool_ptr(h.len_ptr) = OwnerOf(h.len_ptr)
    /\ \A p \in PoolIds :
          Quiescent => pools[p].ref_count = clones[p] + OwnedHandles(p)

\* C23: for every non-null handle owner recovery yields the inner pool whose
\* intern or find created it, also when several pools exist: the mask gives
\* the base of the page that holds a small slot, the fixed offset subtracted
\* from the anchor gives the header of a large entry, and the clones and
\* drops of handles adjust the count of that pool
C23_OwnerRecovery == OwnerRecovery

\* owner recovery is right on the targets where the header has no padding
\* before len_zero
OwnerRecoveryUnpadded ==
    OffsetOf_len_zero = LARGE_STR_ADVANCE => OwnerRecovery

\* on a target that pads the header, a large handle whose recovered owner is
\* not the pool its entry belongs to
PaddedHeaderHandle ==
    /\ OffsetOf_len_zero # LARGE_STR_ADVANCE
    /\ \E h \in LiveHandles :
          /\ LargePtr(h.len_ptr)
          /\ OwnerOf(h.len_ptr) \in PoolIds
          /\ pool_ptr(h.len_ptr) # OwnerOf(h.len_ptr)

\* two pools with a live small and a live large handle each recovered right
TwoPoolsRecovered ==
    /\ Len(pools) = 2
    /\ \E g, h \in LiveHandles :
          /\ SmallPtr(g.len_ptr) /\ pool_ptr(g.len_ptr) = 1
          /\ LargePtr(h.len_ptr) /\ pool_ptr(h.len_ptr) = 2

(***************************************************************************)
(* Duplicate slots.                                                        *)
(***************************************************************************)
\* the threads that reserved the slot at offset i of page q
Creators(q, i) == {t \in Threads : <<i, t>> \in pages[q].by}

\* the slots of the pages of pool p written with the string s
SlotsHolding(p, s) ==
    {qi \in UNION {{<<q, i>> : i \in Slots(q)} : q \in DOMAIN pages} :
        /\ pages[qi[1]].pool = p
        /\ SlotReady(qi[1], qi[2])
        /\ SlotText(qi[1], qi[2]) = Bytes(s)}

\* the threads that have run intern(s) on pool p and reserved a slot in it
SlotMakers(p, s) ==
    UNION {Creators(qi[1], qi[2]) : qi \in SlotsHolding(p, s)}

\* every slot was reserved by one thread, and the slots that hold one string
\* were reserved by different threads
OneSlotPerThread ==
    /\ \A q \in DOMAIN pages : \A i \in Slots(q) : Cardinality(Creators(q, i)) = 1
    /\ \A p \in PoolIds, s \in dict :
          /\ Cardinality(SlotsHolding(p, s)) <= Cardinality(SlotMakers(p, s))
          /\ SlotsHolding(p, s) # {} => <<p, s>> \in called
          /\ Cardinality(SlotMakers(p, s)) <= Cardinality(acted)
          /\ Cardinality(acted) <= 1 => Cardinality(SlotsHolding(p, s)) <= 1

\* a slot is reserved by a thread that runs intern of a string of the length
\* the slot gets, and a slot that holds a string keeps it
SlotsKept ==
    \A q \in DOMAIN pages :
        /\ \A it \in pages'[q].by \ pages[q].by :
              /\ pc[it[2]] = "ti_cas1" /\ loc[it[2]].op = "intern"
              /\ loc[it[2]].page = q /\ loc[it[2]].i = it[1]
              /\ BitAnd(pages'[q].entries[it[1] + 1], LEN_MASK) = StrLen(loc[it[2]].string)
        /\ pages[q].by \subseteq pages'[q].by
        /\ \A i \in Slots(q) :
              SlotReady(q, i) =>
                  /\ pages'[q].entries[i + 1] = pages[q].entries[i + 1]
                  /\ EntrySlice(q, i + 1, i + 1 + SlotLen(q, i))
                       = SubSeq(pages'[q].entries, i + 2, i + 1 + SlotLen(q, i))

\* C24: under any interleaving the slots of a pool that hold one string s are
\* no more than the threads that have run intern(s) on the pool, each thread
\* reserving at most one slot for s over all its calls, and at most one with
\* a single thread; duplicate slots are kept, never removed or merged
C24_SlotsPerThread == []OneSlotPerThread /\ [][SlotsKept]_vars

\* two slots hold "a", reserved by the two threads, and a later intern("a")
\* has returned without reserving a third
C24_Witness ==
    /\ Cardinality(SlotsHolding(1, "a")) = 2
    /\ SlotMakers(1, "a") = Threads
    /\ \E t \in Threads :
          /\ Returned(t, "intern") /\ ret[t].string = "a"
          /\ ret[t].seen /\ ret[t].made = {}

(***************************************************************************)
(* One linked entry per hash.  The hash of an entry is read through the    *)
(* pointer loaded from the list, a dependent load that returns the hash    *)
(* written before the entry was linked.                                    *)
(***************************************************************************)
\* the linked entries of pool p that carry a hash
LinkedWithHash(p, hash) == {e \in LinkedLarges(p) : larges[e].hash = hash}

OneEntryPerHash ==
    /\ \A p \in PoolIds : \A e, f \in LinkedLarges(p) :
          e # f => larges[e].hash # larges[f].hash
    /\ \A t \in Threads :
          ReturnedSome(t, "intern") /\ Tier(StrLen(ret[t].string)) = "large"
              => Cardinality(LinkedWithHash(ret[t].pool, hash_str(ret[t].string))) = 1

\* a step of thread t that links its entry is taken when no linked entry of
\* the pool carries the hash
LinkStep(t) ==
    pc[t] = "il_cas" /\ pc'[t] = "il_inc"
        => /\ LinkedWithHash(loc[t].pool, loc[t].hash) = {}
           /\ LinkedLarges(loc[t].pool)' = LinkedLarges(loc[t].pool) \cup {loc[t].new}

\* C25: under any interleaving of intern_large calls no list holds two linked
\* entries with one 64-bit hash: an entry is appended at a tail only by a
\* thread that has checked every entry from the head up to that tail, and
\* concurrent interns of one large string end with exactly one linked entry
C25_OneEntryPerHash == []OneEntryPerHash /\ [][\A t \in Threads : LinkStep(t)]_vars

\* both threads interned "L1" at the same time: one linked its entry, the
\* other allocated an entry and returned the linked one
C25_Witness ==
    /\ \A t \in Threads : ReturnedSome(t, "intern") /\ ret[t].string = "L1"
    /\ ret[1].val = ret[2].val
    /\ \E t, u \in Threads :
          /\ ret[t].made = {"large", "link"}
          /\ ret[u].made = {"large"}
    /\ Cardinality(LinkedWithHash(1, hash_str("L1"))) = 1

(***************************************************************************)
(* The layout of the slots of a page.                                      *)
(***************************************************************************)
\* the offsets at which a slot was reserved in page q: its true length bytes
Reserved(q) == {it[1] : it \in pages[q].by}

\* the offset after the slot at offset i of page q
SlotEnd(q, i) == i + 1 + BitAnd(EntryAt(q, i), LEN_MASK)

\* the offset after the last slot of page q
UsedEnd(q) == IF Reserved(q) = {} THEN 0
              ELSE SlotEnd(q, CHOOSE i \in Reserved(q) : \A j \in Reserved(q) : j <= i)

\* the slots lie back to back from offset 0 and within the capacity
BackToBack(q) ==
    /\ \A i \in Reserved(q) :
          /\ EntryAt(q, i) # 0
          /\ SlotEnd(q, i) <= PAGE_CAPACITY
          /\ i = 0 \/ \E j \in Reserved(q) : SlotEnd(q, j) = i
          /\ \A j \in Reserved(q) : j # i => SlotEnd(q, j) <= i \/ SlotEnd(q, i) <= j
    /\ \A k \in (UsedEnd(q) + 1)..PAGE_CAPACITY : pages[q].entries[k] = 0

\* thread t is at an access to the byte entries[i] of a page as a length byte
ReadsLenByte(t) == pc[t] \in {"ti_read", "pf_read", "ti_cas1"}

\* C26: in every page and under any interleaving the slots lie back to back
\* from offset 0: each non-UNUSED slot occupies [i, i+1+len) with i+1+len <=
\* PAGE_CAPACITY, no two slots overlap, and every walk from offset 0 that
\* advances by 1+len over READY and WRITING slots alike reads true length
\* bytes only, never a byte of string content
C26_SlotLayout ==
    /\ \A q \in DOMAIN pages :
          /\ BackToBack(q)
          /\ Slots(q) = Reserved(q)
    /\ \A t \in Threads :
          ReadsLenByte(t) =>
              /\ loc[t].i < PAGE_CAPACITY
              /\ loc[t].i \in Reserved(loc[t].page) \cup {UsedEnd(loc[t].page)}

\* a walk stands at the length byte after a WRITING slot whose byte is not
\* copied yet, in a page that holds a slot with a NUL byte before it
C26_Witness ==
    \E t, u \in Threads : \E q \in DOMAIN pages :
        /\ pc[u] = "ti_copy" /\ loc[u].page = q
        /\ ReadsLenByte(t) /\ loc[t].page = q
        /\ loc[t].i = SlotEnd(q, loc[u].i)
        /\ \E i \in Reserved(q) :
              /\ i < loc[u].i /\ SlotReady(q, i)
              /\ SlotText(q, i) = Bytes("N")

(***************************************************************************)
(* The indices of the walks of lib.rs.                                     *)
(***************************************************************************)
\* thread t is at the read of the length byte entries[i]
AtWalkRead(t) == pc[t] \in {"ti_read", "pf_read"}

\* C27: in find_1_127 and intern_1_127 of lib.rs, for every reachable page
\* content, a page whose slots end at PAGE_CAPACITY included, every index
\* used to read a length byte or to slice the bytes of a slot lies inside
\* the entries array: the walk never panics on an index out of bounds and
\* moves on to the next page
C27_WalkInBounds ==
    \A t \in Threads :
        /\ AtWalkRead(t) =>
              /\ loc[t].i < PAGE_CAPACITY
              /\ SlotEnd(loc[t].page, loc[t].i) <= PAGE_CAPACITY
        /\ pc[t] # "panic"

\* a walk of lib.rs stands at the index PAGE_CAPACITY of a page that its
\* slots fill to the last byte
WalkPastFullPage ==
    \E t \in Threads :
        /\ pc[t] = "panic"
        /\ FullPage(loc[t].page)
        /\ loc[t].i = PAGE_CAPACITY

\* the indices stay inside the array while no page is filled to its last byte
WalkInBoundsUnlessFull ==
    (\A q \in DOMAIN pages : ~FullPage(q)) => C27_WalkInBounds

(***************************************************************************)
(* The end of the used space of a page.                                    *)
(***************************************************************************)
\* page q comes before page k in the list of their pool
Before(q, k) ==
    /\ q # k
    /\ pages[q].pool = pages[k].pool
    /\ LET list == PageList(pages[q].pool)
       IN  \E a, b \in DOMAIN list : a < b /\ list[a] = q /\ list[b] = k

\* a string of n bytes fits after the slots of page q
FitsIn(q, n) == SlotFits(UsedEnd(q) + 1, n)

\* the lengths of the strings that the slots of page k hold or are reserved
\* for
StoredLens(k) == {SlotLen(k, i) : i \in Reserved(k)}

\* no string stored in a page fits in a page before it; no compare_exchange
\* is about to reserve a slot for s in a page before a page that holds s;
\* and an intern(s) that started after an intern of s had returned reserves
\* no slot and does not come to the end of the list
FirstFit ==
    /\ \A q, k \in DOMAIN pages :
          Before(q, k) => \A n \in StoredLens(k) : ~FitsIn(q, n)
    /\ \A t \in Threads : \A k \in DOMAIN pages :
          /\ pc[t] = "ti_cas1" /\ EntryAt(loc[t].page, loc[t].i) = 0
          /\ Before(loc[t].page, k)
          => \A i \in Slots(k) : SlotText(k, i) # Bytes(loc[t].string)
    /\ \A t \in Threads :
          InSmallTier(t) /\ loc[t].op = "intern" /\ loc[t].seen
              => /\ ~AtReservedSlot(t)
                 /\ pc[t] \notin {"is_alloc", "is_append"}

\* the end of the used space of a page only grows, and a slot is reserved at
\* that end, by a thread whose string fits after it
EndGrows ==
    \A q \in DOMAIN pages :
        /\ UsedEnd(q)' >= UsedEnd(q)
        /\ \A it \in pages'[q].by \ pages[q].by :
              /\ it[1] = UsedEnd(q)
              /\ FitsIn(q, StrLen(loc[it[2]].string))
              /\ UsedEnd(q)' = UsedEnd(q) + 1 + StrLen(loc[it[2]].string)

RECURSIVE ReadyInOrder(_, _)
ReadyInOrder(list, s) ==
    IF list = << >> THEN << >>
    ELSE LET q == Head(list)
             here == {i \in Slots(q) : SlotReady(q, i) /\ SlotText(q, i) = Bytes(s)}
         IN  IF here # {}
             THEN <<SlotAddr(q, CHOOSE i \in here : \A j \in here : i <= j)>>
             ELSE ReadyInOrder(Tail(list), s)

\* the first READY slot that holds s in pool p, Null when there is none
FirstReady(p, s) ==
    LET r == ReadyInOrder(PageList(p), s)
    IN  IF r = << >> THEN Null ELSE r[1]

\* a call on a small string that started when an intern of the string had
\* returned and none was running
LaterCall(t) ==
    /\ InSmallTier(t)
    /\ loc[t].seen /\ loc[t].quiet

\* a later call returns the first READY slot that holds its string
ReturnsFirstReady(t) ==
    LaterCall(t) =>
        /\ AtMatch(t) => loc[t].val = FirstReady(loc[t].pool, loc[t].string)
        /\ pc[t] = "fs_load" => LoadPageRef(loc[t].pool, loc[t].ref) # Null

\* C29: once every in-flight intern of a small string s has returned, every
\* later find(s) and intern(s) returns the pointer-identical handle, the
\* first READY slot that holds s in the order of the walk, also when
\* duplicate slots of s exist
C29_CanonicalSlot == \A t \in Threads : ReturnsFirstReady(t)

\* the same while every comparison so far has read the bytes of the slot it
\* compared: every first handle holds its string, and the walk of the call
\* compared no stale bytes
CanonicalSlotUnlessStale ==
    (\A r \in returned : r[3] # Null => Deref(r[3]) = Bytes(r[2]))
        => \A t \in Threads : ~loc[t].stale => ReturnsFirstReady(t)

\* a later find("N") returns the slot that holds "a", before the slot of "N"
StaleCanonical ==
    \E t \in Threads :
        /\ LaterCall(t) /\ pc[t] = "fs_inc" /\ loc[t].string = "N"
        /\ loc[t].stale
        /\ Deref(loc[t].val) = Bytes("a")
        /\ loc[t].val < FirstReady(loc[t].pool, "N")

\* two READY slots hold "a" and a later call returns the first of them
DuplicateCanonical ==
    \E t \in Threads :
        /\ LaterCall(t) /\ AtMatch(t) /\ loc[t].string = "a"
        /\ Cardinality(SlotsHolding(loc[t].pool, "a")) = 2
        /\ loc[t].val = FirstReady(loc[t].pool, "a")

====
